---- MODULE Spec2Model ----
(***************************************************************************)
(* Model of the GeNN code generator:                                       *)
(*  - the CUDA presynaptic-update strategies (presynapticUpdateStrategy.cc):*)
(*    their predicates, the structure of the kernel text their genCode     *)
(*    emits, and the execution of the emitted kernels by the units of a    *)
(*    block;                                                               *)
(*  - NeuronGroup (neuronGroup.cc): delay slots, variable queues, variable *)
(*    modes, zero-copy and random number queries;                          *)
(*  - the substitution of placeholders in the code the handlers emit, and  *)
(*    the selection of a strategy for each connection of a model;          *)
(*  - the single-threaded CPU backend.                                     *)
(***************************************************************************)
EXTENDS Integers, Sequences, FiniteSets, TLC

\* ------------------------------------------------------------------------
\* Bounds of the model
\* ------------------------------------------------------------------------
MaxTrgNeurons == 10
MaxThreadsPerSpike == 3
MaxSpikes == 4
\* Units per block in the runs that execute the emitted PostSpan kernel
KernelBlockSize == 2
\* Width in bits of unsigned int in the runs of the NeuronGroup operations
UIntBits == 3
\* Largest number of incoming synapse groups of a NeuronGroup
MaxInSyn == 2
\* Largest number of synapse groups of a model whose strategies are selected
MaxModelConnections == 2
\* Largest number of lines the single-threaded CPU backend writes in a run
MaxLines == 3

\* Lowest CUDA major version on which shouldAccumulateInSharedMemory of the
\* presynaptic strategies allows shared memory
MinSharedAtomicMajor == 5

\* Kernel block sizes the backend is configured with in the generator runs
BlockSizes == {4, 8}
\* CUDA major versions of the chosen device
Majors == {MinSharedAtomicMajor - 1, MinSharedAtomicMajor, MinSharedAtomicMajor + 1}
\* Source population sizes and maximum row lengths
SrcSizes == {2, 3}
RowLengths == {2, 5}

Strategies == {"PreSpan", "PostSpan", "PreSpanProcedural"}
SpanTypes == {"PRESYNAPTIC", "POSTSYNAPTIC"}
Connectivities == {"DENSE", "BITMASK", "SPARSE", "PROCEDURAL"}

VARIABLES
    sg,          \* the SynapseGroupInternal the strategies are asked about
    backend,     \* the Backend: chosen device and kernel block size
    phase,       \* "model" -> "queried" -> "generated" -> "executed";
                 \* "running" while an emitted kernel executes
    compatible,  \* result of isCompatible, per strategy
    inRegister,  \* result of shouldAccumulateInRegister, per strategy
    inShared,    \* result of shouldAccumulateInSharedMemory, per strategy
    numThreads,  \* result of getNumThreads, per strategy
    kernel,      \* what genCode emitted
    blocks       \* PreSpanProcedural kernel: thread -> its idPostStart, numPost

genVars == <<sg, backend, phase, compatible, inRegister, inShared, numThreads,
             kernel, blocks>>

VARIABLES
    numSpikes,   \* dd_glbSpkCnt of the source population
    pc,          \* per unit: index of the loop-body statement it is at
    waiting,     \* per unit: arrived at a __syncthreads, not yet released
    rr,          \* per unit: loop variable r (spike block)
    jj,          \* per unit: loop variable j (spike within the block)
    shSpk,       \* shared scratch array of spike indices
    shRowLength, \* shared scratch array of row lengths
    got,         \* per unit: the scratch reads of its current iteration
    rmw,         \* per unit: the location it has read and not yet written
                 \* back in a non-atomic add
    loadedBy,    \* per unit: the positions of dd_glbSpk it has loaded so far
    processed    \* per unit: the scratch reads of the spikes it has
                 \* processed so far

kernVars == <<numSpikes, pc, waiting, rr, jj, shSpk, shRowLength, got, rmw,
              loadedBy, processed>>

VARIABLES
    m_NumDelaySlots,         \* NeuronGroup::m_NumDelaySlots
    delaysChecked,           \* the requiredDelay values passed so far
    m_VarQueueRequired,      \* NeuronGroup::m_VarQueueRequired, by variable index
    m_AnyVarQueuesRequired,  \* NeuronGroup::m_AnyVarQueuesRequired
    scanned,                 \* the code fragments passed to updateVarQueues so far
    m_VarMode,               \* NeuronGroup::m_VarMode, by variable index
    ndebug,                  \* the build compiles assert() out
    aborted,                 \* a failed assert has terminated the generator
    call,                    \* the last member function called, its argument, its result
    ng                       \* what a NeuronGroup is constructed from: its model's
                             \* code strings, its incoming synapse groups, the modes
                             \* of its spike buffers

ngVars == <<m_NumDelaySlots, delaysChecked, m_VarQueueRequired,
            m_AnyVarQueuesRequired, scanned, m_VarMode, ndebug, aborted, call, ng>>

VARIABLES
    wuCode,      \* the weight update code a handler is called to emit
    subText,     \* the text under substitution: wuCode with some placeholders resolved
    emitted      \* what the handler wrote to its stream, or the generation error

subVars == <<wuCode, subText, emitted>>

VARIABLES
    os           \* the lines the single-threaded CPU backend wrote to its CodeStream

cpuVars == <<os>>

VARIABLES
    connections, \* the synapse groups of the model
    selStatus,   \* "model" -> "selected" -> "done", or "failed"
    selection,   \* the strategy selected for each connection
    written      \* the kernel text written to the output stream, per connection

selVars == <<connections, selStatus, selection, written>>

\* The variable groups of the later parts, each with its own specification
VARIABLES
    kernelParameters,  \* the std::map addExtraGlobalParams is called with
    egpGroup           \* the neuron group addExtraGlobalParams was last called on

egpVars == <<kernelParameters, egpGroup>>

VARIABLES
    preInd,      \* PreSpan kernel: the source neuron of the spike
    npost,       \* PreSpan kernel: the length of the row of preInd
    loopI,       \* PreSpan kernel, per thread: the loop variable i
    synAddress,  \* PreSpan kernel, per thread: the variable synAddress
    visited      \* PreSpan kernel, per thread: i and synAddress of each iteration so far

rowVars == <<preInd, npost, loopI, synAddress, visited>>

VARIABLES
    m_Aliases,           \* Aliases::m_Aliases: code and dependencies of each alias
    codeStrings,         \* genAliases: the code strings that may reference aliases
    excludeAliases,      \* genAliases: the aliases not to be written
    aliasPos,            \* genAliases: position of the loop over m_Aliases
    aliasStack,          \* genAliases: the stack of the depth-first search
    discoveredAliases,   \* genAliases: the aliases discovered so far
    requiredAliases,     \* genAliases: the list of the search under way
    allRequiredAliases,  \* genAliases: the list of all required aliases
    aliasesOut           \* genAliases: the aliases written to os, in order

aliasVars == <<m_Aliases, codeStrings, excludeAliases, aliasPos, aliasStack, discoveredAliases, requiredAliases, allRequiredAliases, aliasesOut>>

VARIABLES
    neuronBlkSz,    \* calcSizes: the block size the groups are padded to
    idStart,        \* calcSizes: the running sum of neuron counts
    paddedIDStart,  \* calcSizes: the running sum of padded sizes
    groupRanges     \* per group calcSizes was called on: its neuron count, m_IDRange and m_PaddedIDRange

sizeVars == <<neuronBlkSz, idStart, paddedIDStart, groupRanges>>

VARIABLES
    dpModel,          \* the derived parameters the neuron model and the snippet declare
    m_DerivedParams,  \* NeuronGroup::m_DerivedParams
    inits,            \* two Snippet::Init of one snippet, each with m_Params and m_DerivedParams; the first is the group's variable initialiser
    dpCalls,          \* the number of initDerivedParams calls on the group and on each Init
    dpNdebug,         \* the build compiles assert() out
    mergeOutcome      \* the outcome of the last canBeMerged of the two Init

dpVars == <<dpModel, m_DerivedParams, inits, dpCalls, dpNdebug, mergeOutcome>>

VARIABLES
    m_CodeStream,           \* SpineMLGenerator::CodeStream::m_CodeStream, as tokens
    m_CurrentRegimeStream,  \* SpineMLGenerator::CodeStream::m_CurrentRegimeStream, as tokens
    m_FirstNonEmptyRegime,  \* SpineMLGenerator::CodeStream::m_FirstNonEmptyRegime
    multipleRegimes,        \* whether the model has more than one regime
    regimeEnds              \* per onRegimeEnd call so far: its regime ID and whether code was written for the regime

csVars == <<m_CodeStream, m_CurrentRegimeStream, m_FirstNonEmptyRegime, multipleRegimes, regimeEnds>>

VARIABLES
    dynamics,         \* generateModelCode: the Regime elements and the initial_regime attribute of Dynamics
    objectHandlers,   \* generateModelCode: the kinds of transition that have an object handler
    regimeIDs,        \* generateModelCode: the map from regime names to IDs
    regimePos,        \* generateModelCode: position of the loop over the regimes, 0 before the map is built
    modelCodeResult   \* generateModelCode: the value returned or the exception thrown

regVars == <<dynamics, objectHandlers, regimeIDs, regimePos, modelCodeResult>>

lateVars == <<egpVars, rowVars, aliasVars, sizeVars, dpVars, csVars, regVars>>

\* What an action of one of the later parts leaves alone
EGPFrame ==
    UNCHANGED <<genVars, kernVars, ngVars, subVars, cpuVars, selVars,
                rowVars, aliasVars, sizeVars, dpVars, csVars, regVars>>

RowFrame ==
    UNCHANGED <<genVars, kernVars, ngVars, subVars, cpuVars, selVars,
                egpVars, aliasVars, sizeVars, dpVars, csVars, regVars>>

AliasFrame ==
    UNCHANGED <<genVars, kernVars, ngVars, subVars, cpuVars, selVars,
                egpVars, rowVars, sizeVars, dpVars, csVars, regVars>>

SizeFrame ==
    UNCHANGED <<genVars, kernVars, ngVars, subVars, cpuVars, selVars,
                egpVars, rowVars, aliasVars, dpVars, csVars, regVars>>

DerivedParamFrame ==
    UNCHANGED <<genVars, kernVars, ngVars, subVars, cpuVars, selVars,
                egpVars, rowVars, aliasVars, sizeVars, csVars, regVars>>

CodeStreamFrame ==
    UNCHANGED <<genVars, kernVars, ngVars, subVars, cpuVars, selVars,
                egpVars, rowVars, aliasVars, sizeVars, dpVars, regVars>>

ModelCodeFrame ==
    UNCHANGED <<genVars, kernVars, ngVars, subVars, cpuVars, selVars,
                egpVars, rowVars, aliasVars, sizeVars, dpVars, csVars>>

extVars == <<ngVars, subVars, cpuVars, selVars, lateVars>>

vars == <<genVars, kernVars, extVars>>

\* ------------------------------------------------------------------------
\* SynapseGroup / Backend
\* ------------------------------------------------------------------------
\* sg.getMatrixType() & SynapseMatrixConnectivity::c
HasConnectivity(g, c) == c \in g.matrixType

SynapseGroups ==
    [spanType : SpanTypes,
     matrixType : {{c} : c \in Connectivities},
     numSrcNeurons : SrcSizes,
     numTrgNeurons : 1..MaxTrgNeurons,
     maxConnections : RowLengths,
     numThreadsPerSpike : 1..MaxThreadsPerSpike,
     dendriticDelayRequired : BOOLEAN,
     eventThresholdReTestRequired : BOOLEAN]

Backends == [major : Majors, kernelBlockSize : BlockSizes]

\* backend.getFloatAtomicAdd(model.getPrecision())
getFloatAtomicAdd == "atomicAdd"

\* sg.getDendriticDelayOffset("dd_", offset)
getDendriticDelayOffset(offset) == <<"denDelayOffset", "(", offset, ")", "+">>

\* Utils::ceilDivide
ceilDivide(numerator, denominator) == (numerator + denominator - 1) \div denominator

\* backend.getFloatAtomicAdd(...) + "(&" + buffer + "[" + index + "], $(0))"
AtomicAddTemplate(buffer, index) ==
    <<getFloatAtomicAdd, "(", "&", buffer, "[">> \o index \o <<"]", ",", "$(0)", ")">>

\* ------------------------------------------------------------------------
\* PresynapticUpdateStrategy::PreSpan
\* ------------------------------------------------------------------------
PreSpan_getNumThreads(g) == g.numSrcNeurons * g.numThreadsPerSpike

PreSpan_isCompatible(g) ==
    (g.spanType = "PRESYNAPTIC") /\ HasConnectivity(g, "SPARSE")

PreSpan_shouldAccumulateInRegister(g, b) == FALSE

\* Variant that forgets the dendritic delay test
PreSpan_sharedMemory_IgnoringDendriticDelay(g, b) ==
    IF b.major < MinSharedAtomicMajor THEN FALSE
    ELSE g.numTrgNeurons <= b.kernelBlockSize

PreSpan_shouldAccumulateInSharedMemory(g, b) ==
    IF b.major < MinSharedAtomicMajor THEN FALSE
    ELSE IF g.dendriticDelayRequired THEN FALSE
    ELSE g.numTrgNeurons <= b.kernelBlockSize

\* The accumulation function bound in synSubs by PreSpan::genCode
PreSpan_accumulation(g, b) ==
    IF g.dendriticDelayRequired
    THEN "addToInSynDelay" :>
            [arity |-> 2,
             template |-> AtomicAddTemplate("dd_denDelay",
                              getDendriticDelayOffset("$(1)") \o <<"ipost">>)]
    ELSE IF PreSpan_shouldAccumulateInSharedMemory(g, b)
    THEN "addToInSyn" :>
            [arity |-> 1, template |-> AtomicAddTemplate("shLg", <<"ipost">>)]
    ELSE "addToInSyn" :>
            [arity |-> 1, template |-> AtomicAddTemplate("dd_inSyn", <<"ipost">>)]

\* What genCode writes around the synapse update, in the order written: the
\* call of the threshold handler, the call that writes the synapse update,
\* and the numbered brackets CodeStream::OB(id) and CodeStream::CB(id)
ThreshCall == [op |-> "wumThreshHandler", id |-> 0]
SimCall == [op |-> "wumSimHandler", id |-> 0]
OB(id) == [op |-> "OB", id |-> id]
CB(id) == [op |-> "CB", id |-> id]

\* !trueSpike && sg.isEventThresholdReTestRequired()
ReTest(g, ts) == ~ts /\ g.eventThresholdReTestRequired

PreSpan_conditionals(g, ts) ==
    (IF ReTest(g, ts) THEN <<ThreshCall, OB(130)>> ELSE << >>)
    \o <<SimCall>>
    \o (IF ReTest(g, ts) THEN <<CB(130)>> ELSE << >>)

\* Variant in which every thread walks the row one synapse at a time
PreSpan_rowLoop_UnitStride(g) ==
    [synAddressFirst |-> IF g.numThreadsPerSpike > 1 THEN "thread" ELSE "0",
     loopFirst |-> IF g.numThreadsPerSpike > 1 THEN "thread" ELSE "0",
     loopStep |-> 1,
     rowStride |-> g.maxConnections]

\* The loop over the row of the spike's source neuron:
\* unsigned int synAddress = (preInd * rowStride) + synAddressFirst;
\* for(i = loopFirst; i < npost; i += loopStep, synAddress += loopStep)
PreSpan_rowLoop(g) ==
    [synAddressFirst |-> IF g.numThreadsPerSpike > 1 THEN "thread" ELSE "0",
     loopFirst |-> IF g.numThreadsPerSpike > 1 THEN "thread" ELSE "0",
     loopStep |-> g.numThreadsPerSpike,
     rowStride |-> g.maxConnections]

PreSpan_genCode(g, b, ts) ==
    [strategy |-> "PreSpan",
     trueSpike |-> ts,
     threadDecl |-> g.numThreadsPerSpike > 1,
     \* wumThreshHandler invocations, each with its variable bindings
     thresh |-> IF ~ts /\ g.eventThresholdReTestRequired
                THEN << ("id" :> "id" @@ "id_pre" :> "preInd") >>
                ELSE << >>,
     \* conditions and loops enclosing the wumSimHandler call, outermost first
     guards |-> <<"spike < glbSpkCnt">>
                \o (IF ~ts /\ g.eventThresholdReTestRequired
                    THEN <<"threshold">> ELSE << >>)
                \o <<"for i < npost">>,
     simVars |-> ("id" :> "id" @@ "id_pre" :> "preInd" @@ "id_post" :> "ipost"
                  @@ "id_syn" :> "synAddress"),
     simFuncs |-> PreSpan_accumulation(g, b),
     conditionals |-> PreSpan_conditionals(g, ts),
     \* for(i = first; i < npost; i += step, synAddress += step)
     synAddressFirst |-> PreSpan_rowLoop(g).synAddressFirst,
     loopFirst |-> PreSpan_rowLoop(g).loopFirst,
     loopStep |-> PreSpan_rowLoop(g).loopStep,
     rowStride |-> PreSpan_rowLoop(g).rowStride]

\* ------------------------------------------------------------------------
\* PresynapticUpdateStrategy::PostSpan
\* ------------------------------------------------------------------------
\* Variant that sizes every matrix by the target population
PostSpan_getNumThreads_AlwaysTarget(g) == g.numTrgNeurons

PostSpan_getNumThreads(g) ==
    IF HasConnectivity(g, "SPARSE") THEN g.maxConnections ELSE g.numTrgNeurons

\* Variant that accepts procedural connectivity
PostSpan_isCompatible_AnyConnectivity(g) == g.spanType = "POSTSYNAPTIC"

PostSpan_isCompatible(g) ==
    (g.spanType = "POSTSYNAPTIC") /\ ~HasConnectivity(g, "PROCEDURAL")

\* Variant that forgets bitmask connectivity
PostSpan_inRegister_DenseOnly(g, b) == HasConnectivity(g, "DENSE")

PostSpan_shouldAccumulateInRegister(g, b) ==
    HasConnectivity(g, "DENSE") \/ HasConnectivity(g, "BITMASK")

\* Variant with a strict comparison against the block size
PostSpan_sharedMemory_StrictlySmaller(g, b) ==
    IF g.dendriticDelayRequired THEN FALSE
    ELSE HasConnectivity(g, "SPARSE") /\ g.numTrgNeurons < b.kernelBlockSize

PostSpan_shouldAccumulateInSharedMemory(g, b) ==
    IF g.dendriticDelayRequired THEN FALSE
    ELSE HasConnectivity(g, "SPARSE") /\ g.numTrgNeurons <= b.kernelBlockSize

\* synSubs["id_post"] in PostSpan::genCode
PostSpan_idPost(g) == IF HasConnectivity(g, "SPARSE") THEN "ipost" ELSE "id"

\* Variant that tests the matrix connectivity before the dendritic delay
PostSpan_accumulation_ConnectivityFirst(g, b) ==
    IF ~HasConnectivity(g, "SPARSE")
    THEN "addToInSyn" :> [arity |-> 1, template |-> <<"linSyn", "+=", "$(0)">>]
    ELSE IF g.dendriticDelayRequired
    THEN "addToInSynDelay" :>
            [arity |-> 2,
             template |-> AtomicAddTemplate("dd_denDelay",
                              getDendriticDelayOffset("$(1)") \o <<PostSpan_idPost(g)>>)]
    ELSE "addToInSyn" :>
            [arity |-> 1,
             template |-> AtomicAddTemplate("dd_inSyn", <<PostSpan_idPost(g)>>)]

\* The accumulation function bound in synSubs by PostSpan::genCode
PostSpan_accumulation(g, b) ==
    IF g.dendriticDelayRequired
    THEN "addToInSynDelay" :>
            [arity |-> 2,
             template |-> AtomicAddTemplate("dd_denDelay",
                              getDendriticDelayOffset("$(1)") \o <<PostSpan_idPost(g)>>)]
    ELSE IF HasConnectivity(g, "SPARSE")
    THEN IF PostSpan_shouldAccumulateInSharedMemory(g, b)
         THEN "addToInSyn" :>
                [arity |-> 1,
                 template |-> <<"shLg", "[", PostSpan_idPost(g), "]", "+=", "$(0)">>]
         ELSE "addToInSyn" :>
                [arity |-> 1,
                 template |-> AtomicAddTemplate("dd_inSyn", <<PostSpan_idPost(g)>>)]
    ELSE "addToInSyn" :> [arity |-> 1, template |-> <<"linSyn", "+=", "$(0)">>]

\* Variant that emits the second barrier after the loop over the spikes of
\* the block instead of before it
PostSpan_blockLoopBody_BarrierAfterConsume ==
    <<"__syncthreads", "load", "consume", "__syncthreads">>

\* The statements of the body of the loop over spike blocks, in order
PostSpan_blockLoopBody ==
    <<"__syncthreads", "load", "__syncthreads", "consume">>

\* The shared scratch arrays the "load" statement fills
PostSpan_loaded(g) ==
    IF HasConnectivity(g, "SPARSE") THEN {"shSpk", "shRowLength"} ELSE {"shSpk"}

\* Variant that closes the bitmask bracket whenever the matrix is a bitmask
PostSpan_conditionals_BitmaskAlwaysClosed(g, ts) ==
    (IF ReTest(g, ts) THEN <<ThreshCall, OB(130)>>
     ELSE IF HasConnectivity(g, "BITMASK") THEN <<OB(135)>> ELSE << >>)
    \o (IF HasConnectivity(g, "SPARSE") THEN <<OB(140)>> ELSE << >>)
    \o <<SimCall>>
    \o (IF HasConnectivity(g, "SPARSE") THEN <<CB(140)>> ELSE << >>)
    \o (IF ReTest(g, ts) THEN <<CB(130)>> ELSE << >>)
    \o (IF HasConnectivity(g, "BITMASK") THEN <<CB(135)>> ELSE << >>)

PostSpan_conditionals(g, ts) ==
    (IF ReTest(g, ts) THEN <<ThreshCall, OB(130)>>
     ELSE IF HasConnectivity(g, "BITMASK") THEN <<OB(135)>> ELSE << >>)
    \o (IF HasConnectivity(g, "SPARSE") THEN <<OB(140)>> ELSE << >>)
    \o <<SimCall>>
    \o (IF HasConnectivity(g, "SPARSE") THEN <<CB(140)>> ELSE << >>)
    \o (IF ReTest(g, ts) THEN <<CB(130)>>
        ELSE IF HasConnectivity(g, "BITMASK") THEN <<CB(135)>> ELSE << >>)

PostSpan_genCode(g, b, ts) ==
    [strategy |-> "PostSpan",
     trueSpike |-> ts,
     blockSize |-> b.kernelBlockSize,
     body |-> PostSpan_blockLoopBody,
     loaded |-> PostSpan_loaded(g),
     thresh |-> IF ~ts /\ g.eventThresholdReTestRequired
                THEN << ("id" :> "id" @@ "id_pre" :> "shSpk[j]") >>
                ELSE << >>,
     guards |-> <<"for r < numSpikeBlocks", "for j < numSpikesInBlock",
                  "id < maxConnections">>
                \o (IF ~ts /\ g.eventThresholdReTestRequired
                    THEN IF HasConnectivity(g, "BITMASK")
                         THEN <<"bitmask && threshold">> ELSE <<"threshold">>
                    ELSE IF HasConnectivity(g, "BITMASK")
                         THEN <<"bitmask">> ELSE << >>)
                \o (IF HasConnectivity(g, "SPARSE") THEN <<"id < npost">> ELSE << >>),
     simVars |-> ("id" :> "id" @@ "id_pre" :> "shSpk[j]"
                  @@ "id_post" :> PostSpan_idPost(g) @@ "id_syn" :> "synAddress"),
     simFuncs |-> PostSpan_accumulation(g, b),
     conditionals |-> PostSpan_conditionals(g, ts),
     rowStride |-> IF HasConnectivity(g, "SPARSE")
                   THEN g.maxConnections ELSE g.numTrgNeurons]

\* ------------------------------------------------------------------------
\* PresynapticUpdateStrategy::PreSpanProcedural
\* ------------------------------------------------------------------------
PreSpanProcedural_getNumThreads(g) == g.numSrcNeurons * g.numThreadsPerSpike

PreSpanProcedural_isCompatible(g) == HasConnectivity(g, "PROCEDURAL")

PreSpanProcedural_shouldAccumulateInRegister(g, b) == FALSE

\* Variant that forgets the device capability test
PreSpanProcedural_sharedMemory_IgnoringMajor(g, b) ==
    IF g.dendriticDelayRequired THEN FALSE
    ELSE g.numTrgNeurons <= b.kernelBlockSize

PreSpanProcedural_shouldAccumulateInSharedMemory(g, b) ==
    IF b.major < MinSharedAtomicMajor THEN FALSE
    ELSE IF g.dendriticDelayRequired THEN FALSE
    ELSE g.numTrgNeurons <= b.kernelBlockSize

\* The accumulation function bound in synSubs by PreSpanProcedural::genCode
PreSpanProcedural_accumulation(g, b) ==
    IF g.dendriticDelayRequired
    THEN "addToInSynDelay" :>
            [arity |-> 2,
             template |-> AtomicAddTemplate("dd_denDelay",
                              getDendriticDelayOffset("$(1)") \o <<"$(id_post)">>)]
    ELSE IF PreSpanProcedural_shouldAccumulateInSharedMemory(g, b)
    THEN "addToInSyn" :>
            [arity |-> 1, template |-> AtomicAddTemplate("shLg", <<"$(id_post)">>)]
    ELSE "addToInSyn" :>
            [arity |-> 1, template |-> AtomicAddTemplate("dd_inSyn", <<"$(id_post)">>)]

\* The emitted declaration of numPost and the binding of $(num_post):
\* a literal when every thread has the same sub-row length, else the clamp
\* (thread == last) ? rem : full
PreSpanProcedural_numPost(g) ==
    IF g.numThreadsPerSpike > 1
    THEN LET numPostPerThread == ceilDivide(g.numTrgNeurons, g.numThreadsPerSpike)
         IN  IF (g.numTrgNeurons % numPostPerThread) = 0
             THEN [clamp |-> FALSE, full |-> numPostPerThread]
             ELSE [clamp |-> TRUE, last |-> g.numThreadsPerSpike - 1,
                   rem |-> g.numTrgNeurons % numPostPerThread,
                   full |-> numPostPerThread]
    ELSE [clamp |-> FALSE, full |-> g.numTrgNeurons]

\* The emitted declaration idPostStart = thread * numPostPerThread, bound to
\* $(id_post_begin); "0" with one thread per spike
PreSpanProcedural_idPostStart(g) ==
    IF g.numThreadsPerSpike > 1
    THEN [perThread |-> TRUE,
          stride |-> ceilDivide(g.numTrgNeurons, g.numThreadsPerSpike)]
    ELSE [perThread |-> FALSE, stride |-> 0]

\* The synapse update is written by wumProceduralConnectHandler, whose
\* addSynapse function is bound to the output of wumSimHandler
PreSpanProcedural_conditionals(g, ts) ==
    (IF ReTest(g, ts) THEN <<ThreshCall, OB(130)>> ELSE << >>)
    \o <<SimCall>>
    \o (IF ReTest(g, ts) THEN <<CB(130)>> ELSE << >>)

PreSpanProcedural_genCode(g, b, ts) ==
    [strategy |-> "PreSpanProcedural",
     trueSpike |-> ts,
     threadDecl |-> g.numThreadsPerSpike > 1,
     thresh |-> IF ~ts /\ g.eventThresholdReTestRequired
                THEN << ("id" :> "id" @@ "id_pre" :> "preInd") >>
                ELSE << >>,
     guards |-> <<"spike < glbSpkCnt">>
                \o (IF ~ts /\ g.eventThresholdReTestRequired
                    THEN <<"threshold">> ELSE << >>),
     simVars |-> ("id" :> "id" @@ "id_pre" :> "preInd" @@ "id_post" :> "$(0)"
                  @@ "id_syn" :> "synAddress"),
     simFuncs |-> PreSpanProcedural_accumulation(g, b),
     conditionals |-> PreSpanProcedural_conditionals(g, ts),
     connFuncs |-> {"addSynapse"},
     idPostStart |-> PreSpanProcedural_idPostStart(g),
     numPost |-> PreSpanProcedural_numPost(g),
     rowStride |-> g.maxConnections]

\* ------------------------------------------------------------------------
\* Virtual dispatch over the strategies (PresynapticUpdateStrategy::Base)
\* ------------------------------------------------------------------------
isCompatible(s, g) ==
    CASE s = "PreSpan" -> PreSpan_isCompatible(g)
      [] s = "PostSpan" -> PostSpan_isCompatible(g)
      [] s = "PreSpanProcedural" -> PreSpanProcedural_isCompatible(g)

shouldAccumulateInRegister(s, g, b) ==
    CASE s = "PreSpan" -> PreSpan_shouldAccumulateInRegister(g, b)
      [] s = "PostSpan" -> PostSpan_shouldAccumulateInRegister(g, b)
      [] s = "PreSpanProcedural" -> PreSpanProcedural_shouldAccumulateInRegister(g, b)

shouldAccumulateInSharedMemory(s, g, b) ==
    CASE s = "PreSpan" -> PreSpan_shouldAccumulateInSharedMemory(g, b)
      [] s = "PostSpan" -> PostSpan_shouldAccumulateInSharedMemory(g, b)
      [] s = "PreSpanProcedural" -> PreSpanProcedural_shouldAccumulateInSharedMemory(g, b)

getNumThreads(s, g) ==
    CASE s = "PreSpan" -> PreSpan_getNumThreads(g)
      [] s = "PostSpan" -> PostSpan_getNumThreads(g)
      [] s = "PreSpanProcedural" -> PreSpanProcedural_getNumThreads(g)

genCode(s, g, b, ts) ==
    CASE s = "PreSpan" -> PreSpan_genCode(g, b, ts)
      [] s = "PostSpan" -> PostSpan_genCode(g, b, ts)
      [] s = "PreSpanProcedural" -> PreSpanProcedural_genCode(g, b, ts)

\* ------------------------------------------------------------------------
\* The generator: one synapse group is queried, then its kernel generated
\* ------------------------------------------------------------------------
NoResult == [s \in Strategies |-> FALSE]
NoCount == [s \in Strategies |-> 0]
NoKernel == [strategy |-> "none"]
NoBlocks == << >>

\* The kernel is not executing
KernelIdle ==
    /\ numSpikes = 0
    /\ pc = << >>
    /\ waiting = << >>
    /\ rr = << >>
    /\ jj = << >>
    /\ shSpk = << >>
    /\ shRowLength = << >>
    /\ got = << >>
    /\ rmw = << >>
    /\ loadedBy = << >>
    /\ processed = << >>

NoCall == [op |-> "none"]

\* No NeuronGroup is under construction
NeuronGroupIdle ==
    /\ m_NumDelaySlots = 0
    /\ delaysChecked = {}
    /\ m_VarQueueRequired = << >>
    /\ m_AnyVarQueuesRequired = FALSE
    /\ scanned = {}
    /\ m_VarMode = << >>
    /\ ndebug = FALSE
    /\ aborted = FALSE
    /\ call = NoCall
    /\ ng = << >>

NoEmission == [status |-> "none"]

\* No handler is emitting
SubstitutionIdle ==
    /\ wuCode = << >>
    /\ subText = << >>
    /\ emitted = NoEmission

\* The single-threaded CPU backend has written nothing
CPUIdle == os = << >>

\* No model is having its strategies selected
SelectionIdle ==
    /\ connections = << >>
    /\ selStatus = "idle"
    /\ selection = << >>
    /\ written = << >>

\* genAliases has not written to its stream
NoAliasesOut == [status |-> "none"]

\* canBeMerged has not been called
NoMerge == [status |-> "none"]

\* generateModelCode has not finished
NoModelCode == [status |-> "none"]

\* The later parts have not run
EGPIdle ==
    /\ kernelParameters = << >>
    /\ egpGroup = << >>

RowIdle ==
    /\ preInd = 0
    /\ npost = 0
    /\ loopI = << >>
    /\ synAddress = << >>
    /\ visited = << >>

AliasIdle ==
    /\ m_Aliases = << >>
    /\ codeStrings = {}
    /\ excludeAliases = {}
    /\ aliasPos = 0
    /\ aliasStack = << >>
    /\ discoveredAliases = {}
    /\ requiredAliases = << >>
    /\ allRequiredAliases = << >>
    /\ aliasesOut = NoAliasesOut

SizeIdle ==
    /\ neuronBlkSz = 0
    /\ idStart = 0
    /\ paddedIDStart = 0
    /\ groupRanges = << >>

DerivedParamIdle ==
    /\ dpModel = << >>
    /\ m_DerivedParams = << >>
    /\ inits = << >>
    /\ dpCalls = << >>
    /\ dpNdebug = FALSE
    /\ mergeOutcome = NoMerge

CodeStreamIdle ==
    /\ m_CodeStream = << >>
    /\ m_CurrentRegimeStream = << >>
    /\ m_FirstNonEmptyRegime = FALSE
    /\ multipleRegimes = FALSE
    /\ regimeEnds = << >>

ModelCodeIdle ==
    /\ dynamics = << >>
    /\ objectHandlers = {}
    /\ regimeIDs = << >>
    /\ regimePos = 0
    /\ modelCodeResult = NoModelCode

\* Only one of the later parts runs
EGPAlone ==
    /\ RowIdle
    /\ AliasIdle
    /\ SizeIdle
    /\ DerivedParamIdle
    /\ CodeStreamIdle
    /\ ModelCodeIdle

RowAlone ==
    /\ EGPIdle
    /\ AliasIdle
    /\ SizeIdle
    /\ DerivedParamIdle
    /\ CodeStreamIdle
    /\ ModelCodeIdle

AliasAlone ==
    /\ EGPIdle
    /\ RowIdle
    /\ SizeIdle
    /\ DerivedParamIdle
    /\ CodeStreamIdle
    /\ ModelCodeIdle

SizeAlone ==
    /\ EGPIdle
    /\ RowIdle
    /\ AliasIdle
    /\ DerivedParamIdle
    /\ CodeStreamIdle
    /\ ModelCodeIdle

DerivedParamAlone ==
    /\ EGPIdle
    /\ RowIdle
    /\ AliasIdle
    /\ SizeIdle
    /\ CodeStreamIdle
    /\ ModelCodeIdle

CodeStreamAlone ==
    /\ EGPIdle
    /\ RowIdle
    /\ AliasIdle
    /\ SizeIdle
    /\ DerivedParamIdle
    /\ ModelCodeIdle

ModelCodeAlone ==
    /\ EGPIdle
    /\ RowIdle
    /\ AliasIdle
    /\ SizeIdle
    /\ DerivedParamIdle
    /\ CodeStreamIdle

LateIdle ==
    /\ EGPIdle
    /\ RowIdle
    /\ AliasIdle
    /\ SizeIdle
    /\ DerivedParamIdle
    /\ CodeStreamIdle
    /\ ModelCodeIdle

ExtIdle == NeuronGroupIdle /\ SubstitutionIdle /\ CPUIdle /\ SelectionIdle /\ LateIdle

Init ==
    /\ ExtIdle
    /\ sg \in SynapseGroups
    /\ backend \in Backends
    /\ phase = "model"
    /\ compatible = NoResult
    /\ inRegister = NoResult
    /\ inShared = NoResult
    /\ numThreads = NoCount
    /\ kernel = NoKernel
    /\ blocks = NoBlocks
    /\ KernelIdle

\* The backend asks every strategy about the synapse group
QueryStrategies ==
    /\ phase = "model"
    /\ phase' = "queried"
    /\ compatible' = [s \in Strategies |-> isCompatible(s, sg)]
    /\ inRegister' = [s \in Strategies |-> shouldAccumulateInRegister(s, sg, backend)]
    /\ inShared' = [s \in Strategies |-> shouldAccumulateInSharedMemory(s, sg, backend)]
    /\ numThreads' = [s \in Strategies |-> getNumThreads(s, sg)]
    /\ UNCHANGED <<sg, backend, kernel, blocks, kernVars, extVars>>

\* genCode of a compatible strategy, for true spikes or spike-like events
GenCode(s, ts) ==
    /\ phase = "queried"
    /\ compatible[s]
    /\ phase' = "generated"
    /\ kernel' = genCode(s, sg, backend, ts)
    /\ UNCHANGED <<sg, backend, compatible, inRegister, inShared, numThreads,
                   blocks, kernVars, extVars>>

\* The units thread = 0 .. numThreadsPerSpike-1 of one spike evaluate the
\* emitted idPostStart and numPost of the PreSpanProcedural kernel
ExecProcedural ==
    /\ phase = "generated"
    /\ kernel.strategy = "PreSpanProcedural"
    /\ phase' = "executed"
    /\ blocks' = [thread \in 0..(sg.numThreadsPerSpike - 1) |->
                    [idPostStart |-> IF kernel.idPostStart.perThread
                                     THEN thread * kernel.idPostStart.stride
                                     ELSE 0,
                     numPost |-> IF kernel.numPost.clamp
                                 THEN IF thread = kernel.numPost.last
                                      THEN kernel.numPost.rem
                                      ELSE kernel.numPost.full
                                 ELSE kernel.numPost.full]]
    /\ UNCHANGED <<sg, backend, compatible, inRegister, inShared, numThreads,
                   kernel, kernVars, extVars>>

Next ==
    \/ QueryStrategies
    \/ \E s \in Strategies, ts \in BOOLEAN : GenCode(s, ts)
    \/ ExecProcedural

Spec == Init /\ [][Next]_vars

\* ------------------------------------------------------------------------
\* Execution of the kernel emitted by PostSpan::genCode by the units
\* (threadIdx.x = 0 .. blockSize-1) of one block
\* ------------------------------------------------------------------------
\* Content of a shared scratch slot nobody has written yet
Undefined == 0 - 1

Units == 0..(backend.kernelBlockSize - 1)

\* numSpikeBlocks = (numSpikes + blockSize - 1) / blockSize
numSpikeBlocks(n, blockSize) == (n + blockSize - 1) \div blockSize

\* Variant that takes every block, the last one included, to be full
numSpikesInBlock_AlwaysFull(r, n, blockSize) == blockSize

\* numSpikesInBlock = (r == numSpikeBlocks - 1) ? ((numSpikes - 1) % blockSize) + 1 : blockSize
numSpikesInBlock(r, n, blockSize) ==
    IF r = numSpikeBlocks(n, blockSize) - 1
    THEN ((n - 1) % blockSize) + 1
    ELSE blockSize

\* The statement unit t is at; "exit" once it has left the loop over r
Statement(t) == IF pc[t] = 0 THEN "exit" ELSE kernel.body[pc[t]]

\* Position after the statement at pc[t]: the next statement of the body, or
\* r++ and the loop test r < numSpikeBlocks
NextPc(t) ==
    IF pc[t] < Len(kernel.body) THEN pc[t] + 1
    ELSE IF rr[t] + 1 < numSpikeBlocks(numSpikes, kernel.blockSize) THEN 1 ELSE 0

NextR(t) == IF pc[t] < Len(kernel.body) THEN rr[t] ELSE rr[t] + 1

\* Synapse groups whose PostSpan kernel is executed
KernelSynapseGroups ==
    [spanType : {"POSTSYNAPTIC"},
     matrixType : {{"SPARSE"}, {"DENSE"}},
     numSrcNeurons : {MaxSpikes},
     numTrgNeurons : {2},
     maxConnections : {2},
     numThreadsPerSpike : {1},
     dendriticDelayRequired : {FALSE},
     eventThresholdReTestRequired : {FALSE}]

\* Kernel launch: the emitted code of PostSpan::genCode, every unit before
\* the loop over spike blocks, the scratch arrays not yet written
InitKernel ==
    /\ ExtIdle
    /\ sg \in KernelSynapseGroups
    /\ backend \in [major : {MinSharedAtomicMajor}, kernelBlockSize : 1..KernelBlockSize]
    /\ phase = "running"
    /\ compatible = [s \in Strategies |-> isCompatible(s, sg)]
    /\ inRegister = [s \in Strategies |-> shouldAccumulateInRegister(s, sg, backend)]
    /\ inShared = [s \in Strategies |-> shouldAccumulateInSharedMemory(s, sg, backend)]
    /\ numThreads = [s \in Strategies |-> getNumThreads(s, sg)]
    /\ kernel = PostSpan_genCode(sg, backend, TRUE)
    /\ blocks = NoBlocks
    /\ numSpikes \in 0..sg.numSrcNeurons
    /\ pc = [t \in Units |->
                IF 0 < numSpikeBlocks(numSpikes, backend.kernelBlockSize) THEN 1 ELSE 0]
    /\ waiting = [t \in Units |-> FALSE]
    /\ rr = [t \in Units |-> 0]
    /\ jj = [t \in Units |-> 0]
    /\ shSpk = [slot \in Units |-> Undefined]
    /\ shRowLength = [slot \in Units |-> Undefined]
    /\ got = [t \in Units |-> << >>]
    /\ rmw = [t \in Units |-> << >>]
    /\ loadedBy = [t \in Units |-> << >>]
    /\ processed = [t \in Units |-> << >>]

\* Unit t arrives at a __syncthreads()
Arrive(t) ==
    /\ Statement(t) = "__syncthreads"
    /\ ~waiting[t]
    /\ waiting' = [waiting EXCEPT ![t] = TRUE]
    /\ UNCHANGED <<extVars, genVars, numSpikes, pc, rr, jj, shSpk, shRowLength, got, rmw,
                   loadedBy, processed>>

\* Every unit of the block has arrived: the barrier releases them all
Release ==
    /\ \E t \in Units : waiting[t]
    /\ \A t \in Units : waiting[t] \/ pc[t] = 0
    /\ waiting' = [t \in Units |-> FALSE]
    /\ pc' = [t \in Units |-> IF waiting[t] THEN NextPc(t) ELSE pc[t]]
    /\ rr' = [t \in Units |-> IF waiting[t] THEN NextR(t) ELSE rr[t]]
    /\ UNCHANGED <<extVars, genVars, numSpikes, jj, shSpk, shRowLength, got, rmw,
                   loadedBy, processed>>

\* if (threadIdx.x < numSpikesInBlock) { shSpk[threadIdx.x] = spk; ... }
\* A spike is identified by its position (r * blockSize) + threadIdx.x in
\* dd_glbSpk, its row length by the same position
Load(t) ==
    /\ Statement(t) = "load"
    /\ IF t < numSpikesInBlock(rr[t], numSpikes, kernel.blockSize)
       THEN /\ shSpk' = [shSpk EXCEPT ![t] = (rr[t] * kernel.blockSize) + t]
            /\ shRowLength' =
                 IF "shRowLength" \in kernel.loaded
                 THEN [shRowLength EXCEPT ![t] = (rr[t] * kernel.blockSize) + t]
                 ELSE shRowLength
            /\ loadedBy' = [loadedBy EXCEPT
                              ![t] = Append(@, (rr[t] * kernel.blockSize) + t)]
       ELSE UNCHANGED <<shSpk, shRowLength, loadedBy>>
    /\ pc' = [pc EXCEPT ![t] = NextPc(t)]
    /\ rr' = [rr EXCEPT ![t] = NextR(t)]
    /\ UNCHANGED <<extVars, genVars, numSpikes, waiting, jj, got, rmw, processed>>

\* dd_ind: the target of synapse k of the row of the spike at position p of
\* dd_glbSpk; rows of different spikes share targets
dd_ind(p, k) == (p + k) % sg.numTrgNeurons

\* The location the accumulation function bound by genCode adds to when unit
\* t handles the spike at position p, and whether the add is atomic
AccumulationOf(t, p) ==
    LET f == CHOOSE name \in DOMAIN kernel.simFuncs : TRUE
        template == kernel.simFuncs[f].template
        idPost == IF kernel.simVars["id_post"] = "ipost" THEN dd_ind(p, t) ELSE t
    IN  IF template[1] = getFloatAtomicAdd
        THEN [atomic |-> TRUE, location |-> <<template[4], idPost>>]
        ELSE IF template[1] = "linSyn"
        THEN [atomic |-> FALSE, location |-> <<"linSyn", t>>]
        ELSE [atomic |-> FALSE, location |-> <<template[1], idPost>>]

\* One iteration of for (j = 0; j < numSpikesInBlock; j++): a unit with
\* id < maxConnections reads shSpk[j], and shRowLength[j] when it was loaded,
\* and runs the synapse's simulation code up to the read of its accumulation;
\* an atomic add completes within the step
Consume(t) ==
    /\ Statement(t) = "consume"
    /\ rmw[t] = << >>
    /\ IF jj[t] < numSpikesInBlock(rr[t], numSpikes, kernel.blockSize)
       THEN /\ got' = [got EXCEPT ![t] =
                         IF t < sg.maxConnections
                         THEN << [r |-> rr[t], j |-> jj[t], spk |-> shSpk[jj[t]],
                                  rowLength |-> IF "shRowLength" \in kernel.loaded
                                                THEN shRowLength[jj[t]]
                                                ELSE shSpk[jj[t]]] >>
                         ELSE << >>]
            /\ processed' = [processed EXCEPT
                               ![t] = IF t < sg.maxConnections
                                      THEN Append(@, shSpk[jj[t]]) ELSE @]
            /\ IF t < sg.maxConnections /\ shSpk[jj[t]] # Undefined
                  /\ ~AccumulationOf(t, shSpk[jj[t]]).atomic
               THEN /\ rmw' = [rmw EXCEPT ![t] = AccumulationOf(t, shSpk[jj[t]]).location]
                    /\ UNCHANGED jj
               ELSE /\ jj' = [jj EXCEPT ![t] = jj[t] + 1]
                    /\ UNCHANGED rmw
            /\ UNCHANGED <<pc, rr>>
       ELSE /\ jj' = [jj EXCEPT ![t] = 0]
            /\ got' = [got EXCEPT ![t] = << >>]
            /\ pc' = [pc EXCEPT ![t] = NextPc(t)]
            /\ rr' = [rr EXCEPT ![t] = NextR(t)]
            /\ UNCHANGED <<rmw, processed>>
    /\ UNCHANGED <<extVars, genVars, numSpikes, waiting, shSpk, shRowLength, loadedBy>>

\* Unit t writes back the sum of a non-atomic add (x += $(0)) and goes on to
\* the next spike of the block
WriteBack(t) ==
    /\ rmw[t] # << >>
    /\ rmw' = [rmw EXCEPT ![t] = << >>]
    /\ jj' = [jj EXCEPT ![t] = jj[t] + 1]
    /\ UNCHANGED <<extVars, genVars, numSpikes, pc, waiting, rr, shSpk, shRowLength, got,
                   loadedBy, processed>>

NextKernel ==
    \/ \E t \in Units : Arrive(t)
    \/ Release
    \/ \E t \in Units : Load(t)
    \/ \E t \in Units : Consume(t)
    \/ \E t \in Units : WriteBack(t)

SpecKernel == InitKernel /\ [][NextKernel]_vars

\* ------------------------------------------------------------------------
\* Properties of the strategies' predicates
\* ------------------------------------------------------------------------
Queried == phase # "model"
Generated == phase \in {"generated", "executed"}

CompatibleStrategies == {s \in Strategies : compatible[s]}

IsDenseOrBitmask(g) == HasConnectivity(g, "DENSE") \/ HasConnectivity(g, "BITMASK")

\* C1 (as stated): for every combination of span type and connectivity,
\* exactly one of the three strategies' isCompatible returns true.
C1_ExactlyOneCompatible ==
    Queried => Cardinality(CompatibleStrategies) = 1

\* C1 (amended): exactly one strategy's isCompatible returns true for every
\* combination except span PRESYNAPTIC with dense or bitmask connectivity,
\* and for those two combinations no strategy's isCompatible returns true.
C1_ExactlyOneCompatibleUnlessPreDense ==
    Queried =>
        IF sg.spanType = "PRESYNAPTIC" /\ IsDenseOrBitmask(sg)
        THEN CompatibleStrategies = {}
        ELSE Cardinality(CompatibleStrategies) = 1

C1_Witness ==
    /\ phase = "queried"
    /\ sg.spanType = "POSTSYNAPTIC"
    /\ HasConnectivity(sg, "PROCEDURAL")
    /\ CompatibleStrategies = {"PreSpanProcedural"}

\* The template of an accumulation function is an atomic add into buffer
IsAtomicAddInto(template, buffer) ==
    /\ Len(template) >= 4
    /\ template[1] = getFloatAtomicAdd
    /\ template[4] = buffer

Tokens(template) == {template[i] : i \in 1..Len(template)}

\* The template is a plain add into the unit's register
IsRegisterAdd(template) == template = <<"linSyn", "+=", "$(0)">>

\* C2: every accumulation function bound by genCode is a register add with
\* the target index bound to the unit's own id, an atomic add into the
\* shared scratch array shLg, or an atomic add into a global buffer.
C2_AccumulationRaceFree ==
    Generated =>
        \A f \in DOMAIN kernel.simFuncs :
            LET template == kernel.simFuncs[f].template
            IN  \/ IsRegisterAdd(template) /\ kernel.simVars["id_post"] = kernel.simVars["id"]
                \/ IsAtomicAddInto(template, "shLg")
                \/ IsAtomicAddInto(template, "dd_inSyn")
                \/ IsAtomicAddInto(template, "dd_denDelay")

\* C2, on the executing PostSpan kernel: no two units are at the same time
\* between the read and the write of a non-atomic add to the same location.
C2_NoConcurrentPlainAdd ==
    phase = "running" =>
        \A t1, t2 \in Units :
            (t1 # t2 /\ rmw[t1] # << >>) => rmw[t1] # rmw[t2]

\* C3: with dendritic delay required, the only accumulation function bound
\* by genCode is addToInSynDelay, and it is the backend's atomic add into the
\* global dendritic delay buffer: no register add, no write to shLg.
C3_DendriticDelayAtomicGlobal ==
    (Generated /\ sg.dendriticDelayRequired) =>
        /\ DOMAIN kernel.simFuncs = {"addToInSynDelay"}
        /\ kernel.simFuncs["addToInSynDelay"].arity = 2
        /\ IsAtomicAddInto(kernel.simFuncs["addToInSynDelay"].template, "dd_denDelay")
        /\ Tokens(kernel.simFuncs["addToInSynDelay"].template)
             \cap {"linSyn", "shLg", "+="} = {}

C3_Witness ==
    /\ Generated
    /\ sg.dendriticDelayRequired
    /\ kernel.strategy = "PostSpan"
    /\ HasConnectivity(sg, "DENSE")
    /\ sg.numTrgNeurons <= backend.kernelBlockSize

\* C4: with dendritic delay required, shouldAccumulateInSharedMemory of each
\* strategy returns false, whatever the target size, block size and tier.
C4_DendriticDelayNeverShared ==
    (Queried /\ sg.dendriticDelayRequired) =>
        \A s \in Strategies : ~inShared[s]

C4_Witness ==
    /\ phase = "queried"
    /\ sg.dendriticDelayRequired
    /\ HasConnectivity(sg, "SPARSE")
    /\ backend.major >= MinSharedAtomicMajor
    /\ sg.numTrgNeurons <= backend.kernelBlockSize

\* C5 (as stated): below CUDA major version 5, shouldAccumulateInSharedMemory
\* of each of the three strategies returns false.
C5_BelowMinTierNeverShared ==
    (Queried /\ backend.major < 5) =>
        \A s \in Strategies : ~inShared[s]

\* C5 (amended): below CUDA major version 5, shouldAccumulateInSharedMemory
\* of PreSpan and PreSpanProcedural returns false; PostSpan's does not consult
\* the tier and returns true there exactly when no dendritic delay is
\* required, the connectivity is sparse and the target size fits the block.
C5_BelowMinTierPreSpanNeverShared ==
    (Queried /\ backend.major < 5) =>
        /\ ~inShared["PreSpan"]
        /\ ~inShared["PreSpanProcedural"]
        /\ inShared["PostSpan"] =
             (/\ ~sg.dendriticDelayRequired
              /\ HasConnectivity(sg, "SPARSE")
              /\ sg.numTrgNeurons <= backend.kernelBlockSize)

C5_Witness ==
    /\ phase = "queried"
    /\ backend.major < 5
    /\ ~sg.dendriticDelayRequired
    /\ HasConnectivity(sg, "SPARSE")
    /\ sg.spanType = "PRESYNAPTIC"
    /\ sg.numTrgNeurons <= backend.kernelBlockSize
    /\ ~inShared["PreSpan"]

\* C6: sparse, parallelize-over-target, no dendritic delay, tier >= 5 and
\* target size <= block size: PostSpan is the compatible strategy and its
\* shouldAccumulateInSharedMemory returns true.
C6_SparsePostSpanShared ==
    (/\ Queried
     /\ HasConnectivity(sg, "SPARSE")
     /\ sg.spanType = "POSTSYNAPTIC"
     /\ ~sg.dendriticDelayRequired
     /\ backend.major >= 5
     /\ sg.numTrgNeurons <= backend.kernelBlockSize) =>
        /\ CompatibleStrategies = {"PostSpan"}
        /\ inShared["PostSpan"]

C6_Witness ==
    /\ phase = "queried"
    /\ HasConnectivity(sg, "SPARSE")
    /\ sg.spanType = "POSTSYNAPTIC"
    /\ ~sg.dendriticDelayRequired
    /\ backend.major >= 5
    /\ sg.numTrgNeurons = backend.kernelBlockSize
    /\ inShared["PostSpan"]

\* C7: shouldAccumulateInRegister is true for dense or bitmask connectivity
\* with span parallelize-over-target under PostSpan, and false for every
\* connection under PreSpan and PreSpanProcedural.
C7_RegisterAccumulation ==
    Queried =>
        /\ (IsDenseOrBitmask(sg) /\ sg.spanType = "POSTSYNAPTIC") => inRegister["PostSpan"]
        /\ ~inRegister["PreSpan"]
        /\ ~inRegister["PreSpanProcedural"]

C7_Witness ==
    /\ phase = "queried"
    /\ HasConnectivity(sg, "BITMASK")
    /\ sg.spanType = "POSTSYNAPTIC"
    /\ inRegister["PostSpan"]

\* C8: getNumThreads is source size x threads per spike for PreSpan and
\* PreSpanProcedural; for PostSpan the maximum row length when sparse and the
\* target size when dense or bitmask.
C8_NumThreads ==
    Queried =>
        /\ numThreads["PreSpan"] = sg.numSrcNeurons * sg.numThreadsPerSpike
        /\ numThreads["PreSpanProcedural"] = sg.numSrcNeurons * sg.numThreadsPerSpike
        /\ HasConnectivity(sg, "SPARSE") => numThreads["PostSpan"] = sg.maxConnections
        /\ IsDenseOrBitmask(sg) => numThreads["PostSpan"] = sg.numTrgNeurons

C8_Witness ==
    /\ phase = "queried"
    /\ HasConnectivity(sg, "SPARSE")
    /\ sg.maxConnections # sg.numTrgNeurons
    /\ sg.numThreadsPerSpike > 1
    /\ numThreads["PostSpan"] = sg.maxConnections
    /\ numThreads["PreSpan"] = sg.numSrcNeurons * sg.numThreadsPerSpike

\* ceil(T / n)
Ceil(T, n) == CHOOSE q \in 0..T : q * n >= T /\ (q - 1) * n < T

\* C9: with n > 1 threads per spike and T targets, thread k starts at
\* k*ceil(T/n) and gets ceil(T/n) targets, except that when n does not divide
\* T the final thread n-1 gets only the remainder T mod ceil(T/n);
\* T = 10, n = 3 gives the block sizes 4, 4, 2.
C9_ProceduralThreadBlocks ==
    (phase = "executed" /\ sg.numThreadsPerSpike > 1) =>
        LET T == sg.numTrgNeurons
            n == sg.numThreadsPerSpike
        IN  /\ DOMAIN blocks = 0..(n - 1)
            /\ \A k \in 0..(n - 1) :
                /\ blocks[k].idPostStart = k * Ceil(T, n)
                /\ blocks[k].numPost =
                     IF k = n - 1 /\ T % n # 0 THEN T % Ceil(T, n) ELSE Ceil(T, n)
            /\ (T = 10 /\ n = 3) =>
                 <<blocks[0].numPost, blocks[1].numPost, blocks[2].numPost>> = <<4, 4, 2>>

\* ------------------------------------------------------------------------
\* Properties of the executing PostSpan kernel
\* ------------------------------------------------------------------------
SyncCount == Cardinality({i \in 1..Len(kernel.body) : kernel.body[i] = "__syncthreads"})

\* C10: the units synchronise at two barriers per spike block, so that every
\* read of a scratch slot j in spike block r sees what the loading unit wrote
\* for block r, and no unit is at its load of a later block while another
\* unit has not finished an earlier block.
C10_BarriersOrderScratchAccess ==
    phase = "running" =>
        /\ SyncCount = 2
        /\ \A t \in Units : \A i \in 1..Len(got[t]) :
              /\ got[t][i].spk = (got[t][i].r * kernel.blockSize) + got[t][i].j
              /\ got[t][i].rowLength = (got[t][i].r * kernel.blockSize) + got[t][i].j
        /\ \A t1, t2 \in Units :
              (Statement(t1) = "load" /\ pc[t2] # 0) => rr[t2] >= rr[t1]

C10_Witness ==
    /\ phase = "running"
    /\ \E t1, t2 \in Units :
          /\ t1 # t2
          /\ Statement(t1) = "consume"
          /\ rr[t1] = 1
          /\ got[t1] = << [r |-> 1, j |-> 1, spk |-> kernel.blockSize + 1,
                           rowLength |-> kernel.blockSize + 1] >>
          /\ Statement(t2) = "consume"
          /\ jj[t2] = 0

\* ------------------------------------------------------------------------
\* NeuronGroup (neuronGroup.cc): the delay slots
\* ------------------------------------------------------------------------
\* Number of values of unsigned int, and the largest of them
UIntRange == 2 ^ UIntBits
UIntMax == UIntRange - 1

\* m_NumDelaySlots after construction
InitialNumDelaySlots == 1

\* The synaptic delays checkNumDelaySlots is called with
RequiredDelays == {0, 1, 2, 5, UIntMax - 1, UIntMax}

Max2(a, b) == IF a >= b THEN a ELSE b
MaxOf(S) == CHOOSE x \in S : \A y \in S : y <= x

\* The generator, its kernel and the NeuronGroup operations run apart
GeneratorIdle ==
    /\ sg = << >>
    /\ backend = << >>
    /\ phase = "idle"
    /\ compatible = NoResult
    /\ inRegister = NoResult
    /\ inShared = NoResult
    /\ numThreads = NoCount
    /\ kernel = NoKernel
    /\ blocks = NoBlocks
    /\ KernelIdle

checkNumDelaySlots_AlwaysAssign(numDelaySlots, requiredDelay) ==
    (requiredDelay + 1) % UIntRange

\* NeuronGroup::checkNumDelaySlots: the value of m_NumDelaySlots it leaves
checkNumDelaySlots(numDelaySlots, requiredDelay) ==
    IF requiredDelay >= numDelaySlots
    THEN (requiredDelay + 1) % UIntRange
    ELSE numDelaySlots

InitDelaySlots ==
    /\ LateIdle
    /\ GeneratorIdle
    /\ SubstitutionIdle
    /\ CPUIdle
    /\ SelectionIdle
    /\ m_NumDelaySlots = InitialNumDelaySlots
    /\ delaysChecked = {}
    /\ m_VarQueueRequired = << >>
    /\ m_AnyVarQueuesRequired = FALSE
    /\ scanned = {}
    /\ m_VarMode = << >>
    /\ ndebug = FALSE
    /\ aborted = FALSE
    /\ call = NoCall
    /\ ng = << >>

CheckNumDelaySlots(requiredDelay) ==
    /\ m_NumDelaySlots' = checkNumDelaySlots(m_NumDelaySlots, requiredDelay)
    /\ delaysChecked' = delaysChecked \cup {requiredDelay}
    /\ call' = [op |-> "checkNumDelaySlots", requiredDelay |-> requiredDelay]
    /\ UNCHANGED <<genVars, kernVars, lateVars, subVars, cpuVars, selVars, m_VarQueueRequired, m_AnyVarQueuesRequired,
                   scanned, m_VarMode, ndebug, aborted, ng>>

NextDelaySlots == \E requiredDelay \in RequiredDelays : CheckNumDelaySlots(requiredDelay)

SpecDelaySlots == InitDelaySlots /\ [][NextDelaySlots]_vars

\* ------------------------------------------------------------------------
\* Properties of the delay slots
\* ------------------------------------------------------------------------
\* C11: calls of checkNumDelaySlots with values among 2, 5 and 1, in any
\* order and with any repetition, leave the slot count at the largest value
\* passed plus one; once all three have been passed the count is 6.
C11_DelaySlotsOrderIndependent ==
    /\ (delaysChecked # {} /\ delaysChecked \subseteq {2, 5, 1}) =>
          m_NumDelaySlots = MaxOf(delaysChecked) + 1
    /\ delaysChecked = {2, 5, 1} => m_NumDelaySlots = 6

C11_Witness ==
    /\ delaysChecked = {2, 5, 1}
    /\ call = [op |-> "checkNumDelaySlots", requiredDelay |-> 1]
    /\ m_NumDelaySlots = 6

\* C12: every call checkNumDelaySlots(requiredDelay) leaves the slot count at
\* max(previous count, requiredDelay + 1), for every requiredDelay of the
\* argument type, so the count never decreases.
C12_DelaySlotsMaxNeverDecrease ==
    [][call'.op = "checkNumDelaySlots" =>
          /\ m_NumDelaySlots' = Max2(m_NumDelaySlots, call'.requiredDelay + 1)
          /\ m_NumDelaySlots' >= m_NumDelaySlots]_vars

\* ------------------------------------------------------------------------
\* NeuronGroup (neuronGroup.cc): variable queues and variable modes
\* ------------------------------------------------------------------------
\* Names and code strings are sequences of characters
\* The characters of the names and code strings of the runs
V_NAME == <<"V">>
XV_NAME == <<"x", "V">>
U_NAME == <<"U">>
\* varName + "_pre"
PRE_SUFFIX == <<"_", "p", "r", "e">>
\* $(V_pre), $(xV_pre) and $(V)
CODE_V_PRE == <<"$", "(", "V", "_", "p", "r", "e", ")">>
CODE_XV_PRE == <<"$", "(", "x", "V", "_", "p", "r", "e", ")">>
CODE_V == <<"$", "(", "V", ")">>

\* code.find(pattern) != string::npos
Find(code, pattern) ==
    \E i \in 1..(Len(code) - Len(pattern) + 1) :
        SubSeq(code, i, i + Len(pattern) - 1) = pattern

\* getNeuronModel()->getVars(): the names of the model's variables
NeuronModelVars == <<V_NAME, XV_NAME>>
\* A name the model does not declare
UndeclaredName == U_NAME
VarNames == {NeuronModelVars[i] : i \in 1..Len(NeuronModelVars)} \cup {UndeclaredName}
\* Indices of the vectors with one element per variable
VarIndices == 0..(Len(NeuronModelVars) - 1)

\* The code strings updateVarQueues is called with
CodeFragments == {CODE_V_PRE, CODE_XV_PRE, CODE_V}

\* VarMode: the locations of a variable
VarModes == {{"HOST", "DEVICE"}, {"DEVICE"}, {"HOST", "DEVICE", "ZERO_COPY"}}
\* Modes of the spike, spike-event and spike-time buffers
SpikeVarModes == {{"HOST", "DEVICE"}, {"HOST", "DEVICE", "ZERO_COPY"}}
\* mode & VarLocation::l
HasLocation(mode, l) == l \in mode

\* find_if(vec.begin(), vec.end(), ...) != vec.end()
Declared(name, vec) == \E i \in 1..Len(vec) : vec[i] = name

\* Snippet getNamedVecIndex: distance(vec.begin(), iter), which is vec.size()
\* when the name is not found and the assert is compiled out
getNamedVecIndex(name, vec) ==
    IF Declared(name, vec)
    THEN (CHOOSE i \in 1..Len(vec) :
            /\ vec[i] = name
            /\ \A k \in 1..(i - 1) : vec[k] # name) - 1
    ELSE Len(vec)

\* getNeuronModel()->getVarIndex(varName)
getVarIndex(varName) == getNamedVecIndex(varName, NeuronModelVars)

\* isSpikeZeroCopyEnabled, isSpikeEventZeroCopyEnabled, isSpikeTimeZeroCopyEnabled
isSpikeZeroCopyEnabled(g) == HasLocation(g.spikeVarMode, "ZERO_COPY")
isSpikeEventZeroCopyEnabled(g) == HasLocation(g.spikeEventVarMode, "ZERO_COPY")
isSpikeTimeZeroCopyEnabled(g) == HasLocation(g.spikeTimeVarMode, "ZERO_COPY")

isZeroCopyEnabled_SpikeBuffersOnly(g, varMode) ==
    isSpikeZeroCopyEnabled(g) \/ isSpikeEventZeroCopyEnabled(g)
        \/ isSpikeTimeZeroCopyEnabled(g)

\* NeuronGroup::isZeroCopyEnabled
isZeroCopyEnabled(g, varMode) ==
    IF isSpikeZeroCopyEnabled(g) \/ isSpikeEventZeroCopyEnabled(g)
          \/ isSpikeTimeZeroCopyEnabled(g)
    THEN TRUE
    ELSE IF \E i \in DOMAIN varMode : HasLocation(varMode[i], "ZERO_COPY")
         THEN TRUE
         ELSE FALSE

\* NeuronGroup::updateVarQueues: does the loop set the flag of variable i
updateVarQueues_sets(code, i) == Find(code, NeuronModelVars[i + 1] \o PRE_SUFFIX)

NeuronGroups ==
    [spikeVarMode : SpikeVarModes,
     spikeEventVarMode : SpikeVarModes,
     spikeTimeVarMode : SpikeVarModes]

\* A NeuronGroup after construction: no queue required, every variable in
\* the default mode
InitNeuronGroup ==
    /\ LateIdle
    /\ GeneratorIdle
    /\ SubstitutionIdle
    /\ CPUIdle
    /\ SelectionIdle
    /\ m_NumDelaySlots = InitialNumDelaySlots
    /\ delaysChecked = {}
    /\ m_VarQueueRequired = [i \in VarIndices |-> FALSE]
    /\ m_AnyVarQueuesRequired = FALSE
    /\ scanned = {}
    /\ \E defaultVarMode \in VarModes : m_VarMode = [i \in VarIndices |-> defaultVarMode]
    /\ ndebug \in BOOLEAN
    /\ aborted = FALSE
    /\ call = NoCall
    /\ ng \in NeuronGroups

UpdateVarQueues(code) ==
    /\ ~aborted
    /\ m_VarQueueRequired' =
          [i \in VarIndices |-> IF updateVarQueues_sets(code, i)
                                THEN TRUE
                                ELSE m_VarQueueRequired[i]]
    /\ m_AnyVarQueuesRequired' =
          IF \E i \in VarIndices : updateVarQueues_sets(code, i)
          THEN TRUE
          ELSE m_AnyVarQueuesRequired
    /\ scanned' = scanned \cup {code}
    /\ call' = [op |-> "updateVarQueues", code |-> code]
    /\ UNCHANGED <<genVars, kernVars, lateVars, subVars, cpuVars, selVars, m_NumDelaySlots, delaysChecked, m_VarMode,
                   ndebug, aborted, ng>>

\* setVarMode: with an undeclared name the assert of getNamedVecIndex ends
\* the run; compiled out, m_VarMode[size] = mode stores past the end of the
\* vector, which is undefined: nothing visible happens, the run crashes, or
\* the store lands on a stored mode
SetVarMode(varName, mode) ==
    /\ ~aborted
    /\ call' = [op |-> "setVarMode", name |-> varName, mode |-> mode]
    /\ IF Declared(varName, NeuronModelVars)
       THEN /\ m_VarMode' = [m_VarMode EXCEPT ![getVarIndex(varName)] = mode]
            /\ UNCHANGED aborted
       ELSE IF ~ndebug
            THEN /\ aborted' = TRUE
                 /\ UNCHANGED m_VarMode
            ELSE \/ /\ UNCHANGED <<m_VarMode, aborted>>
                 \/ /\ aborted' = TRUE
                    /\ UNCHANGED m_VarMode
                 \/ /\ \E i \in VarIndices : m_VarMode' = [m_VarMode EXCEPT ![i] = mode]
                    /\ UNCHANGED aborted
    /\ UNCHANGED <<genVars, kernVars, lateVars, subVars, cpuVars, selVars, m_NumDelaySlots, delaysChecked,
                   m_VarQueueRequired, m_AnyVarQueuesRequired, scanned, ndebug, ng>>

\* getVarMode: with an undeclared name and the assert compiled out, the read
\* of m_VarMode[size] is undefined: the run crashes or any mode is returned
GetVarMode(varName) ==
    /\ ~aborted
    /\ IF Declared(varName, NeuronModelVars)
       THEN /\ call' = [op |-> "getVarMode", name |-> varName,
                        result |-> m_VarMode[getVarIndex(varName)]]
            /\ UNCHANGED aborted
       ELSE IF ~ndebug
            THEN /\ aborted' = TRUE
                 /\ call' = [op |-> "getVarMode", name |-> varName]
            ELSE \/ /\ aborted' = TRUE
                    /\ call' = [op |-> "getVarMode", name |-> varName]
                 \/ /\ \E mode \in VarModes :
                          call' = [op |-> "getVarMode", name |-> varName, result |-> mode]
                    /\ UNCHANGED aborted
    /\ UNCHANGED <<genVars, kernVars, lateVars, subVars, cpuVars, selVars, m_NumDelaySlots, delaysChecked,
                   m_VarQueueRequired, m_AnyVarQueuesRequired, scanned, m_VarMode,
                   ndebug, ng>>

\* isVarQueueRequired: as getVarMode, on m_VarQueueRequired
IsVarQueueRequired(var) ==
    /\ ~aborted
    /\ IF Declared(var, NeuronModelVars)
       THEN /\ call' = [op |-> "isVarQueueRequired", name |-> var,
                        result |-> m_VarQueueRequired[getVarIndex(var)]]
            /\ UNCHANGED aborted
       ELSE IF ~ndebug
            THEN /\ aborted' = TRUE
                 /\ call' = [op |-> "isVarQueueRequired", name |-> var]
            ELSE \/ /\ aborted' = TRUE
                    /\ call' = [op |-> "isVarQueueRequired", name |-> var]
                 \/ /\ \E flag \in BOOLEAN :
                          call' = [op |-> "isVarQueueRequired", name |-> var, result |-> flag]
                    /\ UNCHANGED aborted
    /\ UNCHANGED <<genVars, kernVars, lateVars, subVars, cpuVars, selVars, m_NumDelaySlots, delaysChecked,
                   m_VarQueueRequired, m_AnyVarQueuesRequired, scanned, m_VarMode,
                   ndebug, ng>>

IsZeroCopyEnabled ==
    /\ ~aborted
    /\ call' = [op |-> "isZeroCopyEnabled", result |-> isZeroCopyEnabled(ng, m_VarMode)]
    /\ UNCHANGED <<genVars, kernVars, lateVars, subVars, cpuVars, selVars, m_NumDelaySlots, delaysChecked,
                   m_VarQueueRequired, m_AnyVarQueuesRequired, scanned, m_VarMode,
                   ndebug, aborted, ng>>

NextNeuronGroup ==
    \/ \E code \in CodeFragments : UpdateVarQueues(code)
    \/ \E varName \in VarNames, mode \in VarModes : SetVarMode(varName, mode)
    \/ \E varName \in VarNames : GetVarMode(varName)
    \/ \E var \in VarNames : IsVarQueueRequired(var)
    \/ IsZeroCopyEnabled

SpecNeuronGroup == InitNeuronGroup /\ [][NextNeuronGroup]_vars

\* ------------------------------------------------------------------------
\* Properties of the variable queues and variable modes
\* ------------------------------------------------------------------------
\* Characters that end an identifier in a code string
IsIdentifierChar(c) == c \notin {"$", "(", ")"}

\* The code string holds the identifier v_pre: the name v with the suffix,
\* not a longer identifier that ends in it
ReferencesQueued(code, v) ==
    LET ref == v \o PRE_SUFFIX
    IN \E i \in 1..(Len(code) - Len(ref) + 1) :
          /\ SubSeq(code, i, i + Len(ref) - 1) = ref
          /\ (i = 1 \/ ~IsIdentifierChar(code[i - 1]))
          /\ (i + Len(ref) > Len(code) \/ ~IsIdentifierChar(code[i + Len(ref)]))

\* C17: isZeroCopyEnabled returns true exactly when the spike, spike-event or
\* spike-time buffer or the mode of at least one variable has the zero-copy
\* location, and the call changes no stored state.
C17_ZeroCopyExact ==
    [][call'.op = "isZeroCopyEnabled" =>
          /\ call'.result =
                (\/ HasLocation(ng.spikeVarMode, "ZERO_COPY")
                 \/ HasLocation(ng.spikeEventVarMode, "ZERO_COPY")
                 \/ HasLocation(ng.spikeTimeVarMode, "ZERO_COPY")
                 \/ \E i \in VarIndices : HasLocation(m_VarMode[i], "ZERO_COPY"))
          /\ UNCHANGED <<m_VarMode, m_VarQueueRequired, m_AnyVarQueuesRequired,
                         m_NumDelaySlots, ng>>]_vars

C17_Witness ==
    /\ call = [op |-> "isZeroCopyEnabled", result |-> TRUE]
    /\ ~isSpikeZeroCopyEnabled(ng)
    /\ ~isSpikeEventZeroCopyEnabled(ng)
    /\ ~isSpikeTimeZeroCopyEnabled(ng)
    /\ HasLocation(m_VarMode[1], "ZERO_COPY")
    /\ ~HasLocation(m_VarMode[0], "ZERO_COPY")

\* C18: after any calls of updateVarQueues, the queue flag of a declared
\* variable v is true exactly when a scanned code string referred to v_pre
\* itself, not to a longer identifier ending in v's name (so a set flag is
\* never cleared), and the any-queue flag is true exactly when some
\* variable's flag is.
C18_QueueFlagsExact ==
    /\ \A i \in DOMAIN m_VarQueueRequired :
          m_VarQueueRequired[i] =
              (\E code \in scanned : ReferencesQueued(code, NeuronModelVars[i + 1]))
    /\ m_AnyVarQueuesRequired = (\E i \in DOMAIN m_VarQueueRequired : m_VarQueueRequired[i])

\* What C18 still holds of the code: flags are only ever set, and the
\* any-queue flag follows them
C18_QueueFlagsMonotone ==
    [][/\ \A i \in VarIndices : m_VarQueueRequired[i] => m_VarQueueRequired'[i]
       /\ m_AnyVarQueuesRequired' = (\E i \in VarIndices : m_VarQueueRequired'[i])]_vars

\* C19: setVarMode, getVarMode and isVarQueueRequired called with a name the
\* model does not declare end in a fatal error with every stored mode and
\* queue flag unchanged; with a declared name v, setVarMode(v, m) makes
\* getVarMode(v) return m and leaves the modes of the other variables alone,
\* and the two queries return the stored element of v.
C19_VarNameChecked ==
    [][call'.op \in {"setVarMode", "getVarMode", "isVarQueueRequired"} =>
          IF Declared(call'.name, NeuronModelVars)
          THEN /\ ~aborted'
               /\ call'.op = "setVarMode" =>
                     m_VarMode' = [m_VarMode EXCEPT ![getVarIndex(call'.name)] = call'.mode]
               /\ call'.op = "getVarMode" =>
                     /\ call'.result = m_VarMode[getVarIndex(call'.name)]
                     /\ UNCHANGED m_VarMode
               /\ call'.op = "isVarQueueRequired" =>
                     /\ call'.result = m_VarQueueRequired[getVarIndex(call'.name)]
                     /\ UNCHANGED m_VarMode
               /\ UNCHANGED <<m_VarQueueRequired, m_AnyVarQueuesRequired>>
          ELSE /\ aborted'
               /\ UNCHANGED <<m_VarMode, m_VarQueueRequired, m_AnyVarQueuesRequired>>]_vars

\* What C19 still holds of the code: in a build that keeps assert()
C19_VarNameCheckedWithAsserts ==
    [][(~ndebug /\ call'.op \in {"setVarMode", "getVarMode", "isVarQueueRequired"}
          /\ ~Declared(call'.name, NeuronModelVars)) =>
          /\ aborted'
          /\ UNCHANGED <<m_VarMode, m_VarQueueRequired, m_AnyVarQueuesRequired>>]_vars

\* ------------------------------------------------------------------------
\* NeuronGroup (neuronGroup.cc): isSimRNGRequired
\* ------------------------------------------------------------------------
\* Code strings as token sequences: one that calls a random number
\* function, and one that does not
RandomCode == <<"$(x)", "=", "$(gennrand_uniform)", ";">>
PlainCode == <<"$(x)", "=", "$(t)", ";">>
CodeStrings == {RandomCode, PlainCode}

\* The $(gennrand_...) functions
RandomFunctions ==
    {"$(gennrand_uniform)", "$(gennrand_normal)", "$(gennrand_exponential)",
     "$(gennrand_log_normal)", "$(gennrand_gamma)"}

\* ::isRNGRequired(code)
isRNGRequired(code) == \E i \in 1..Len(code) : code[i] \in RandomFunctions

\* sg->getPSModel(): the postsynaptic models of the incoming synapse groups
PSModels == [applyInputCode : CodeStrings, decayCode : CodeStrings]

SeqsUpTo(S, n) == UNION {[1..k -> S] : k \in 0..n}

SimRNGNeuronGroups ==
    [simCode : CodeStrings,
     thresholdConditionCode : CodeStrings,
     resetCode : CodeStrings,
     inSyn : SeqsUpTo(PSModels, MaxInSyn)]

isSimRNGRequired_OwnCodeOnly(g) ==
    isRNGRequired(g.simCode)
        \/ isRNGRequired(g.thresholdConditionCode)
        \/ isRNGRequired(g.resetCode)

\* NeuronGroup::isSimRNGRequired
isSimRNGRequired(g) ==
    IF isRNGRequired(g.simCode)
          \/ isRNGRequired(g.thresholdConditionCode)
          \/ isRNGRequired(g.resetCode)
    THEN TRUE
    ELSE IF \E i \in 1..Len(g.inSyn) :
               isRNGRequired(g.inSyn[i].applyInputCode)
                   \/ isRNGRequired(g.inSyn[i].decayCode)
         THEN TRUE
         ELSE FALSE

InitSimRNG ==
    /\ LateIdle
    /\ GeneratorIdle
    /\ SubstitutionIdle
    /\ CPUIdle
    /\ SelectionIdle
    /\ m_NumDelaySlots = InitialNumDelaySlots
    /\ delaysChecked = {}
    /\ m_VarQueueRequired = << >>
    /\ m_AnyVarQueuesRequired = FALSE
    /\ scanned = {}
    /\ m_VarMode = << >>
    /\ ndebug = FALSE
    /\ aborted = FALSE
    /\ call = NoCall
    /\ ng \in SimRNGNeuronGroups

IsSimRNGRequired ==
    /\ call' = [op |-> "isSimRNGRequired", result |-> isSimRNGRequired(ng)]
    /\ UNCHANGED <<genVars, kernVars, lateVars, subVars, cpuVars, selVars, m_NumDelaySlots, delaysChecked,
                   m_VarQueueRequired, m_AnyVarQueuesRequired, scanned, m_VarMode,
                   ndebug, aborted, ng>>

NextSimRNG == IsSimRNGRequired

SpecSimRNG == InitSimRNG /\ [][NextSimRNG]_vars

\* ------------------------------------------------------------------------
\* Properties of isSimRNGRequired
\* ------------------------------------------------------------------------
\* C16: isSimRNGRequired returns true exactly when the sim, threshold
\* condition or reset code of the population, or the apply-input or decay
\* code of the postsynaptic model of at least one incoming synapse group,
\* calls a random number function.
C16_SimRNGExact ==
    call.op = "isSimRNGRequired" =>
        call.result =
            (\E code \in {ng.simCode, ng.thresholdConditionCode, ng.resetCode}
                        \cup {ng.inSyn[i].applyInputCode : i \in 1..Len(ng.inSyn)}
                        \cup {ng.inSyn[i].decayCode : i \in 1..Len(ng.inSyn)} :
                isRNGRequired(code))

C16_Witness ==
    /\ call = [op |-> "isSimRNGRequired", result |-> TRUE]
    /\ ng.simCode = PlainCode
    /\ ng.thresholdConditionCode = PlainCode
    /\ ng.resetCode = PlainCode
    /\ Len(ng.inSyn) = 2
    /\ ng.inSyn[1] = [applyInputCode |-> PlainCode, decayCode |-> PlainCode]
    /\ ng.inSyn[2] = [applyInputCode |-> PlainCode, decayCode |-> RandomCode]

\* ------------------------------------------------------------------------
\* The substitution engine (Substitutions) and the weight update handlers
\* ------------------------------------------------------------------------
\* Text is a sequence of tokens.  $(name) is one token; a call
\* $(name, arg0, arg1) is the opening token "$(name," followed by its
\* one-token arguments, separated by "," and closed by ")"
VarPlaceholder ==
    ("id" :> "$(id)" @@ "id_pre" :> "$(id_pre)" @@ "id_post" :> "$(id_post)"
     @@ "id_syn" :> "$(id_syn)")

FuncOpener ==
    ("addToInSyn" :> "$(addToInSyn," @@ "addToInSynDelay" :> "$(addToInSynDelay,")

\* The positional argument markers of a function template
PositionalMarkers == <<"$(0)", "$(1)">>

Placeholders ==
    {VarPlaceholder[n] : n \in DOMAIN VarPlaceholder}
        \cup {FuncOpener[n] : n \in DOMAIN FuncOpener}
        \cup {PositionalMarkers[k] : k \in 1..Len(PositionalMarkers)}

HasPlaceholder(text) == \E i \in 1..Len(text) : text[i] \in Placeholders

\* The bindings of a chain of contexts, innermost binding of each name
SubstitutionContexts(k) == [vars |-> k.simVars, funcs |-> k.simFuncs]

\* Token i of the text is a placeholder the chain binds
BoundVarAt(ctx, text, i) ==
    \E n \in DOMAIN ctx.vars \cap DOMAIN VarPlaceholder : text[i] = VarPlaceholder[n]
BoundFuncAt(ctx, text, i) ==
    \E n \in DOMAIN ctx.funcs \cap DOMAIN FuncOpener : text[i] = FuncOpener[n]

\* Substitute the bound replacement text for the variable placeholder at i
ResolveVarAt(ctx, text, i) ==
    LET n == CHOOSE n \in DOMAIN ctx.vars \cap DOMAIN VarPlaceholder :
                 text[i] = VarPlaceholder[n]
    IN  SubSeq(text, 1, i - 1) \o <<ctx.vars[n]>> \o SubSeq(text, i + 1, Len(text))

\* Copy of a template with each positional marker replaced by the call's
\* argument text
ExpandTemplate(template, args) ==
    [j \in 1..Len(template) |->
        IF \E k \in 1..Len(args) : template[j] = PositionalMarkers[k]
        THEN args[CHOOSE k \in 1..Len(args) : template[j] = PositionalMarkers[k]]
        ELSE template[j]]

\* Splice the expanded template in place of the call that opens at i
ResolveFuncAt(ctx, text, i) ==
    LET n == CHOOSE n \in DOMAIN ctx.funcs \cap DOMAIN FuncOpener :
                 text[i] = FuncOpener[n]
        arity == ctx.funcs[n].arity
        args == [k \in 1..arity |-> text[i + (2 * k) - 1]]
    IN  SubSeq(text, 1, i - 1) \o ExpandTemplate(ctx.funcs[n].template, args)
            \o SubSeq(text, i + (2 * arity) + 1, Len(text))

\* The first call of a bound function, and the first bound variable
\* placeholder, of the text
FirstBoundFunc(ctx, text) ==
    CHOOSE i \in 1..Len(text) :
        /\ BoundFuncAt(ctx, text, i)
        /\ \A k \in 1..(i - 1) : ~BoundFuncAt(ctx, text, k)
FirstBoundVar(ctx, text) ==
    CHOOSE i \in 1..Len(text) :
        /\ BoundVarAt(ctx, text, i)
        /\ \A k \in 1..(i - 1) : ~BoundVarAt(ctx, text, k)

RECURSIVE applyFuncs(_, _)
\* Every call of a bound function in the text, expanded
applyFuncs(ctx, text) ==
    IF \E i \in 1..Len(text) : BoundFuncAt(ctx, text, i)
    THEN applyFuncs(ctx, ResolveFuncAt(ctx, text, FirstBoundFunc(ctx, text)))
    ELSE text

RECURSIVE applyVars(_, _)
\* Every bound variable placeholder in the text, replaced
applyVars(ctx, text) ==
    IF \E i \in 1..Len(text) : BoundVarAt(ctx, text, i)
    THEN applyVars(ctx, ResolveVarAt(ctx, text, FirstBoundVar(ctx, text)))
    ELSE text

\* One pass over the text, functions before variables or variables before
\* functions
SubstitutionPass(ctx, text, funcsFirst) ==
    IF funcsFirst
    THEN applyVars(ctx, applyFuncs(ctx, text))
    ELSE applyFuncs(ctx, applyVars(ctx, text))

Resolve_SinglePass(ctx, text, funcsFirst) == SubstitutionPass(ctx, text, funcsFirst)

RECURSIVE Resolve(_, _, _)
\* Passes repeated until no known placeholder remains
Resolve(ctx, text, funcsFirst) ==
    LET pass == SubstitutionPass(ctx, text, funcsFirst)
    IN  IF pass = text THEN text ELSE Resolve(ctx, pass, funcsFirst)

\* Substitutions apply: the resolved text, a leftover placeholder being an
\* error
apply(ctx, text) ==
    LET resolved == Resolve(ctx, text, TRUE)
    IN  IF HasPlaceholder(resolved)
        THEN [status |-> "error", text |-> resolved]
        ELSE [status |-> "written", text |-> resolved]

\* Weight update sim code: $(addToInSyn, $(id_syn)); a delayed variant
\* $(addToInSynDelay, $(id_syn), $(id_pre)); and x[$(id_post)] = $(id_pre);
WUCode_addToInSyn == <<"$(addToInSyn,", "$(id_syn)", ")", ";">>
WUCode_addToInSynDelay == <<"$(addToInSynDelay,", "$(id_syn)", ",", "$(id_pre)", ")", ";">>
WUCode_idPost == <<"x", "[", "$(id_post)", "]", "=", "$(id_pre)", ";">>
WUCodes == {WUCode_addToInSyn, WUCode_addToInSynDelay, WUCode_idPost}

\* The names a code string refers to are bound by the strategy
UsesBoundNames(ctx, code) ==
    \A i \in 1..Len(code) :
        /\ \A n \in DOMAIN VarPlaceholder : code[i] = VarPlaceholder[n] => n \in DOMAIN ctx.vars
        /\ \A n \in DOMAIN FuncOpener : code[i] = FuncOpener[n] => n \in DOMAIN ctx.funcs

\* Synapse groups and backends of the runs of the handlers
HandlerSynapseGroups ==
    [spanType : SpanTypes,
     matrixType : {{c} : c \in Connectivities},
     numSrcNeurons : {2},
     numTrgNeurons : {2, MaxTrgNeurons},
     maxConnections : {2},
     numThreadsPerSpike : {1},
     dendriticDelayRequired : BOOLEAN,
     eventThresholdReTestRequired : {FALSE}]

HandlerBackends == [major : {MinSharedAtomicMajor}, kernelBlockSize : BlockSizes]

\* genCode of the compatible strategy has bound its names and calls
\* wumSimHandler with weight update code that uses them
InitSubstitution ==
    /\ LateIdle
    /\ NeuronGroupIdle
    /\ CPUIdle
    /\ SelectionIdle
    /\ KernelIdle
    /\ sg \in HandlerSynapseGroups
    /\ backend \in HandlerBackends
    /\ phase = "generated"
    /\ compatible = [s \in Strategies |-> isCompatible(s, sg)]
    /\ inRegister = [s \in Strategies |-> shouldAccumulateInRegister(s, sg, backend)]
    /\ inShared = [s \in Strategies |-> shouldAccumulateInSharedMemory(s, sg, backend)]
    /\ numThreads = [s \in Strategies |-> getNumThreads(s, sg)]
    /\ \E s \in Strategies :
          /\ isCompatible(s, sg)
          /\ kernel = genCode(s, sg, backend, TRUE)
    /\ blocks = NoBlocks
    /\ wuCode \in WUCodes
    /\ UsesBoundNames(SubstitutionContexts(kernel), wuCode)
    /\ subText = wuCode
    /\ emitted = NoEmission

\* One variable placeholder of the text is resolved
ResolveVar(i) ==
    /\ emitted = NoEmission
    /\ BoundVarAt(SubstitutionContexts(kernel), subText, i)
    /\ subText' = ResolveVarAt(SubstitutionContexts(kernel), subText, i)
    /\ UNCHANGED <<genVars, kernVars, lateVars, ngVars, cpuVars, selVars, wuCode, emitted>>

\* One function call of the text is expanded
ResolveFunc(i) ==
    /\ emitted = NoEmission
    /\ BoundFuncAt(SubstitutionContexts(kernel), subText, i)
    /\ subText' = ResolveFuncAt(SubstitutionContexts(kernel), subText, i)
    /\ UNCHANGED <<genVars, kernVars, lateVars, ngVars, cpuVars, selVars, wuCode, emitted>>

\* No known placeholder remains: the handler writes the text to its stream,
\* or generation fails on a leftover placeholder
HandlerEmit ==
    /\ emitted = NoEmission
    /\ \A i \in 1..Len(subText) :
          /\ ~BoundVarAt(SubstitutionContexts(kernel), subText, i)
          /\ ~BoundFuncAt(SubstitutionContexts(kernel), subText, i)
    /\ emitted' = apply(SubstitutionContexts(kernel), subText)
    /\ UNCHANGED <<genVars, kernVars, lateVars, ngVars, cpuVars, selVars, wuCode, subText>>

NextSubstitution ==
    \/ \E i \in 1..Len(subText) : ResolveVar(i)
    \/ \E i \in 1..Len(subText) : ResolveFunc(i)
    \/ HandlerEmit

SpecSubstitution == InitSubstitution /\ [][NextSubstitution]_vars

C13_SpanHandlerTextResolved ==
    (emitted # NoEmission /\ kernel.strategy # "PreSpanProcedural") =>
        /\ emitted.status = "written"
        /\ ~HasPlaceholder(emitted.text)

\* C14: substitution is confluent: whichever order the function calls and
\* the variable placeholders of a fragment are resolved in, one at a time or
\* in passes of functions first or variables first, the final text is the
\* same, also when a function template holds a variable placeholder.
C14_SubstitutionConfluent ==
    (\A i \in 1..Len(subText) :
          /\ ~BoundVarAt(SubstitutionContexts(kernel), subText, i)
          /\ ~BoundFuncAt(SubstitutionContexts(kernel), subText, i)) =>
        /\ subText = Resolve(SubstitutionContexts(kernel), wuCode, TRUE)
        /\ subText = Resolve(SubstitutionContexts(kernel), wuCode, FALSE)

C14_Witness ==
    /\ kernel.strategy = "PreSpanProcedural"
    /\ wuCode = WUCode_addToInSyn
    /\ emitted # NoEmission
    /\ subText = <<"atomicAdd", "(", "&", "dd_inSyn", "[", "$(0)", "]", ",",
                   "synAddress", ")", ";">>

\* ------------------------------------------------------------------------
\* Strategy selection over the connections of a model
\* ------------------------------------------------------------------------
\* The synapse groups of the models of the runs
SelectionSynapseGroups ==
    [spanType : SpanTypes,
     matrixType : {{c} : c \in Connectivities},
     numSrcNeurons : {2},
     numTrgNeurons : {2},
     maxConnections : {2},
     numThreadsPerSpike : {1},
     dendriticDelayRequired : {FALSE},
     eventThresholdReTestRequired : {FALSE}]

SelectionBackend == [major |-> MinSharedAtomicMajor, kernelBlockSize |-> KernelBlockSize]

\* The strategies whose isCompatible holds for a synapse group
CompatibleWith(g) == {s \in Strategies : isCompatible(s, g)}

selectStrategies_FallbackPostSpan(conns) ==
    [status |-> "selected",
     selection |-> [i \in 1..Len(conns) |->
                      IF Cardinality(CompatibleWith(conns[i])) = 1
                      THEN CHOOSE s \in Strategies : isCompatible(s, conns[i])
                      ELSE "PostSpan"]]

\* The selector: every connection is given its one compatible strategy, or
\* selection fails for the model as a whole
selectStrategies(conns) ==
    IF \A i \in 1..Len(conns) : Cardinality(CompatibleWith(conns[i])) = 1
    THEN [status |-> "selected",
          selection |-> [i \in 1..Len(conns) |->
                           CHOOSE s \in Strategies : isCompatible(s, conns[i])]]
    ELSE [status |-> "failed", selection |-> << >>]

InitSelection ==
    /\ LateIdle
    /\ NeuronGroupIdle
    /\ SubstitutionIdle
    /\ CPUIdle
    /\ KernelIdle
    /\ sg = << >>
    /\ backend = SelectionBackend
    /\ phase = "idle"
    /\ compatible = NoResult
    /\ inRegister = NoResult
    /\ inShared = NoResult
    /\ numThreads = NoCount
    /\ kernel = NoKernel
    /\ blocks = NoBlocks
    /\ connections \in UNION {[1..n -> SelectionSynapseGroups] : n \in 1..MaxModelConnections}
    /\ selStatus = "model"
    /\ selection = << >>
    /\ written = << >>

SelectStrategies ==
    /\ selStatus = "model"
    /\ selStatus' = selectStrategies(connections).status
    /\ selection' = selectStrategies(connections).selection
    /\ UNCHANGED <<genVars, kernVars, lateVars, ngVars, subVars, cpuVars, connections, written>>

\* The kernel text of the next connection is written to the output stream
\* by genCode of its selected strategy
EmitKernel ==
    /\ selStatus = "selected"
    /\ Len(written) < Len(connections)
    /\ written' = Append(written,
                         genCode(selection[Len(written) + 1],
                                 connections[Len(written) + 1], backend, TRUE))
    /\ selStatus' = IF Len(written) + 1 = Len(connections) THEN "done" ELSE selStatus
    /\ UNCHANGED <<genVars, kernVars, lateVars, ngVars, subVars, cpuVars, connections, selection>>

NextSelection == SelectStrategies \/ EmitKernel

SpecSelection == InitSelection /\ [][NextSelection]_vars

\* ------------------------------------------------------------------------
\* Properties of strategy selection
\* ------------------------------------------------------------------------
\* C15: strategy selection fails fast: when the number of strategies
\* compatible with some connection of the model is not one, generation ends
\* in the fatal error and at no point has kernel text been written for any
\* connection.
C15_SelectionFailsFast ==
    (\E i \in 1..Len(connections) :
          Cardinality({s \in Strategies : isCompatible(s, connections[i])}) # 1) =>
        /\ selStatus \in {"model", "failed"}
        /\ written = << >>

C15_Witness ==
    /\ selStatus = "failed"
    /\ written = << >>
    /\ Len(connections) = 2
    /\ PostSpan_isCompatible(connections[1])
    /\ \A s \in Strategies : ~isCompatible(s, connections[2])

\* ------------------------------------------------------------------------
\* Backends::SingleThreadedCPU
\* ------------------------------------------------------------------------
\* The kernel entry points of the backend interface
KernelEntryPoints ==
    {"genNeuronUpdateKernel", "genPresynapticUpdateKernel", "genInitKernel",
     "genEmitSpike"}

\* Element counts, types and names the variable primitives are called with
ElementCounts == {1, 2}
VarTypes == {"float"}
VarIdentifiers == {"V"}

\* The variable initialisation code the handler of genVariableInit emits
VarInitCode == <<"x", "[", "$(id)", "]", "=", "0", ";">>

\* Substitutions varSubs(&kernelSubs); varSubs.addVarSubstitution("id", "i")
genVariableInit_varSubs == [vars |-> ("id" :> "i"), funcs |-> << >>]

\* USE(...); assert(false): the run ends on the failed assertion, or with
\* assert compiled out the function returns having written nothing
AssertFalse(op) ==
    /\ ~aborted
    /\ call' = [op |-> op]
    /\ IF ndebug
       THEN UNCHANGED <<os, aborted>>
       ELSE /\ aborted' = TRUE
            /\ UNCHANGED os

InitSingleThreadedCPU ==
    /\ LateIdle
    /\ GeneratorIdle
    /\ SubstitutionIdle
    /\ SelectionIdle
    /\ m_NumDelaySlots = 0
    /\ delaysChecked = {}
    /\ m_VarQueueRequired = << >>
    /\ m_AnyVarQueuesRequired = FALSE
    /\ scanned = {}
    /\ m_VarMode = << >>
    /\ ng = << >>
    /\ ndebug \in BOOLEAN
    /\ aborted = FALSE
    /\ call = NoCall
    /\ os = << >>

\* What no action of the backend changes
CPUFrame ==
    UNCHANGED <<genVars, kernVars, lateVars, subVars, selVars, m_NumDelaySlots, delaysChecked,
                m_VarQueueRequired, m_AnyVarQueuesRequired, scanned, m_VarMode,
                ndebug, ng>>

GenNeuronUpdateKernel == AssertFalse("genNeuronUpdateKernel") /\ CPUFrame

GenPresynapticUpdateKernel == AssertFalse("genPresynapticUpdateKernel") /\ CPUFrame

GenInitKernel == AssertFalse("genInitKernel") /\ CPUFrame

GenEmitSpike == AssertFalse("genEmitSpike") /\ CPUFrame

\* A primitive that writes one line to the stream
WriteLine(op, line) ==
    /\ ~aborted
    /\ Len(os) < MaxLines
    /\ call' = [op |-> op]
    /\ os' = Append(os, line)
    /\ UNCHANGED aborted

GenVariableDefinition(type, name) ==
    /\ WriteLine("genVariableDefinition",
                 [stmt |-> "definition", type |-> type, name |-> name])
    /\ CPUFrame

GenVariableImplementation(type, name) ==
    /\ WriteLine("genVariableImplementation",
                 [stmt |-> "implementation", type |-> type, name |-> name])
    /\ CPUFrame

GenVariableAllocation(type, name, count) ==
    /\ WriteLine("genVariableAllocation",
                 [stmt |-> "new[]", type |-> type, name |-> name, count |-> count])
    /\ CPUFrame

GenVariableFree(name) ==
    /\ WriteLine("genVariableFree", [stmt |-> "delete[]", name |-> name])
    /\ CPUFrame

\* for (unsigned i = 0; i < count; i++) { handler(os, varSubs); }
GenVariableInit(count) ==
    /\ WriteLine("genVariableInit",
                 [stmt |-> "for", index |-> "i", first |-> 0, count |-> count,
                  body |-> apply(genVariableInit_varSubs, VarInitCode)])
    /\ CPUFrame

NextSingleThreadedCPU ==
    \/ GenNeuronUpdateKernel
    \/ GenPresynapticUpdateKernel
    \/ GenInitKernel
    \/ GenEmitSpike
    \/ \E type \in VarTypes, name \in VarIdentifiers : GenVariableDefinition(type, name)
    \/ \E type \in VarTypes, name \in VarIdentifiers : GenVariableImplementation(type, name)
    \/ \E type \in VarTypes, name \in VarIdentifiers, count \in ElementCounts :
          GenVariableAllocation(type, name, count)
    \/ \E name \in VarIdentifiers : GenVariableFree(name)
    \/ \E count \in ElementCounts : GenVariableInit(count)

SpecSingleThreadedCPU == InitSingleThreadedCPU /\ [][NextSingleThreadedCPU]_vars

\* ------------------------------------------------------------------------
\* Properties of the single-threaded CPU backend
\* ------------------------------------------------------------------------
\* C20: each of genNeuronUpdateKernel, genPresynapticUpdateKernel,
\* genInitKernel and genEmitSpike completes without an assertion failure and
\* writes sequential code to the stream, as genVariableInit does by writing
\* one loop over the element count with $(id) bound to the loop index.
C20_KernelEntryPointsEmit ==
    [][/\ call'.op \in KernelEntryPoints =>
             /\ ~aborted'
             /\ Len(os') = Len(os) + 1
       /\ call'.op = "genVariableInit" =>
             /\ ~aborted'
             /\ os' = Append(os, [stmt |-> "for", index |-> "i", first |-> 0,
                                  count |-> os'[Len(os')].count,
                                  body |-> [status |-> "written",
                                            text |-> <<"x", "[", "i", "]", "=", "0", ";">>]])]_vars

\* What C20 still holds of the code: genVariableInit writes one sequential
\* loop with $(id) resolved to the loop index
C20_VariableInitSequentialLoop ==
    [][call'.op = "genVariableInit" =>
          /\ ~aborted'
          /\ os' = Append(os, [stmt |-> "for", index |-> "i", first |-> 0,
                               count |-> os'[Len(os')].count,
                               body |-> [status |-> "written",
                                         text |-> <<"x", "[", "i", "]", "=", "0", ";">>]])]_vars

\* ------------------------------------------------------------------------
\* NeuronGroup (neuronGroup.cc): extra global parameters
\* ------------------------------------------------------------------------
\* The extra global parameter of the extra_global_params_in_sim_code model,
\* and a second one whose name is a prefix of it
EGP_INPUT == <<"i", "n", "p", "u", "t">>
EGP_IN == <<"i", "n">>
\* The name of the population of that model, and a second one that ends in it
NAME_PRE == <<"p", "r", "e">>
NAME_PUTPRE == <<"p", "u", "t", "p", "r", "e">>
\* Code strings: $(input), $(in), $(x) and a bare "input"
CODE_INPUT == <<"$", "(", "i", "n", "p", "u", "t", ")">>
CODE_IN == <<"$", "(", "i", "n", ")">>
CODE_X == <<"$", "(", "x", ")">>
CODE_BARE_INPUT == <<"i", "n", "p", "u", "t", ";">>
NoCode == << >>

\* getExtraGlobalParams(): pairs of name and type
ExtraGlobalParamLists ==
    LET input == [name |-> EGP_INPUT, type |-> "scalar"]
        inp == [name |-> EGP_IN, type |-> "int"]
    IN  {<< >>, <<input>>, <<inp>>, <<input, inp>>, <<inp, input>>}

\* The neuron groups addExtraGlobalParams is called on
EGPNeuronGroups ==
    [name : {NAME_PRE, NAME_PUTPRE},
     extraGlobalParams : ExtraGlobalParamLists,
     simCode : {CODE_INPUT, CODE_X, CODE_BARE_INPUT},
     thresholdConditionCode : {NoCode, CODE_IN},
     resetCode : {NoCode, CODE_INPUT}]

\* The maps the first call can be given: nothing registered yet, or
\* input + pre registered by an earlier group
InitialKernelParameters ==
    {<< >>, (EGP_INPUT \o NAME_PRE) :> "float"}

\* "$(" + p.first + ")"
Placeholder(pname) == <<"$", "(">> \o pname \o <<")">>

\* The condition of lines 133-135: the placeholder occurs in one of the
\* three code strings of the neuron model
isExtraGlobalParamUsed(g, pname) ==
    \/ Find(g.simCode, Placeholder(pname))
    \/ Find(g.thresholdConditionCode, Placeholder(pname))
    \/ Find(g.resetCode, Placeholder(pname))

\* The loop of addExtraGlobalParams from its i-th parameter on
RECURSIVE addExtraGlobalParams_from(_, _, _)
addExtraGlobalParams_from(g, kernelParams, i) ==
    IF i > Len(g.extraGlobalParams) THEN kernelParams
    ELSE LET p == g.extraGlobalParams[i]
             pnamefull == p.name \o g.name
         IN  IF pnamefull \notin DOMAIN kernelParams
                /\ isExtraGlobalParamUsed(g, p.name)
             THEN addExtraGlobalParams_from(
                      g, kernelParams @@ (pnamefull :> p.type), i + 1)
             ELSE addExtraGlobalParams_from(g, kernelParams, i + 1)

\* A registration that does not look at the code strings
addExtraGlobalParams_RegisterAll(g, kernelParams) ==
    LET ps == g.extraGlobalParams
        keys == {ps[i].name \o g.name : i \in 1..Len(ps)}
    IN  kernelParams @@
        [k \in keys |->
            ps[CHOOSE i \in 1..Len(ps) : ps[i].name \o g.name = k].type]
addExtraGlobalParams(g, kernelParams) ==
    addExtraGlobalParams_from(g, kernelParams, 1)

InitExtraGlobalParams ==
    /\ GeneratorIdle
    /\ NeuronGroupIdle
    /\ SubstitutionIdle
    /\ CPUIdle
    /\ SelectionIdle
    /\ EGPAlone
    /\ kernelParameters \in InitialKernelParameters
    /\ egpGroup = << >>

\* neuronGroup.addExtraGlobalParams(kernelParameters), on a map shared by
\* the groups of the model
AddExtraGlobalParams(g) ==
    /\ egpGroup' = g
    /\ kernelParameters' = addExtraGlobalParams(g, kernelParameters)
    /\ EGPFrame

NextExtraGlobalParams ==
    \E g \in EGPNeuronGroups : AddExtraGlobalParams(g)

SpecExtraGlobalParams == InitExtraGlobalParams /\ [][NextExtraGlobalParams]_vars

\* ------------------------------------------------------------------------
\* Properties of addExtraGlobalParams
\* ------------------------------------------------------------------------
\* The keys p + groupName of the parameters of a group
EGPKeys(g) ==
    {g.extraGlobalParams[i].name \o g.name : i \in 1..Len(g.extraGlobalParams)}

\* C21: after addExtraGlobalParams(kernelParameters) on a group, for every
\* extra global parameter p of the group's model the map contains the key
\* p + groupName exactly when it contained it before the call or $(p) occurs
\* in the sim code, the threshold condition code or the reset code; the
\* entries present before keep their value and no other key is added.
C21_ExtraGlobalParamsRegistered ==
    [][LET g == egpGroup'
           ps == g.extraGlobalParams
       IN  /\ \A i \in 1..Len(ps) :
                  (ps[i].name \o g.name) \in DOMAIN kernelParameters'
                  <=> \/ (ps[i].name \o g.name) \in DOMAIN kernelParameters
                      \/ Find(g.simCode, Placeholder(ps[i].name))
                      \/ Find(g.thresholdConditionCode, Placeholder(ps[i].name))
                      \/ Find(g.resetCode, Placeholder(ps[i].name))
           /\ \A k \in DOMAIN kernelParameters :
                  /\ k \in DOMAIN kernelParameters'
                  /\ kernelParameters'[k] = kernelParameters[k]
           /\ (DOMAIN kernelParameters') \ (DOMAIN kernelParameters)
                  \subseteq EGPKeys(g)]_vars

\* A group with two parameters was called on a map that held an entry: one
\* parameter was registered by the call, the other, unused, was not, and a
\* key that two groups share is in the map
C21_Witness ==
    /\ egpGroup # << >>
    /\ Len(egpGroup.extraGlobalParams) = 2
    /\ egpGroup.name = NAME_PUTPRE
    /\ (EGP_IN \o NAME_PUTPRE) \in DOMAIN kernelParameters
    /\ kernelParameters[EGP_IN \o NAME_PUTPRE] = "float"
    /\ (EGP_INPUT \o NAME_PUTPRE) \in DOMAIN kernelParameters
    /\ ~ isExtraGlobalParamUsed(egpGroup, EGP_IN)
    /\ (EGP_IN \o NAME_PRE) \notin DOMAIN kernelParameters

\* ------------------------------------------------------------------------
\* Properties of the blocks of targets of the PreSpanProcedural kernel
\* ------------------------------------------------------------------------
\* The target ids [idPostStart, idPostStart + numPost) of thread k
BlockOf(k) == blocks[k].idPostStart..(blocks[k].idPostStart + blocks[k].numPost - 1)

\* C22: for every target count T >= 1 and every number n >= 1 of threads
\* per spike, the blocks [idPostStart, idPostStart + numPost) of the threads
\* 0..n-1 partition the target range: every target id in [0, T) lies in
\* exactly one thread's block, and no block contains an id >= T.
C22_ProceduralBlocksPartition ==
    phase = "executed" =>
        LET T == sg.numTrgNeurons
            n == sg.numThreadsPerSpike
        IN  /\ \A id \in 0..(T - 1) :
                  Cardinality({k \in 0..(n - 1) : id \in BlockOf(k)}) = 1
            /\ \A k \in 0..(n - 1) : \A id \in BlockOf(k) : id < T

\* ------------------------------------------------------------------------
\* Properties of the loop over spike blocks of the PostSpan kernel
\* ------------------------------------------------------------------------
\* The loads of position p of dd_glbSpk: the unit and the rank of the load
LoadsOf(p) ==
    UNION {{<<t, i>> : i \in {i \in 1..Len(loadedBy[t]) : loadedBy[t][i] = p}} :
           t \in Units}

KernelFinished == \A t \in Units : pc[t] = 0

\* C23: for every spike count numSpikes >= 0 and block size B >= 1, the loop
\* over numSpikeBlocks = ceil(numSpikes / B) blocks, with
\* ((numSpikes - 1) mod B) + 1 spikes in the last block and B in the others,
\* loads every spike index in [0, numSpikes) exactly once, every unit that has
\* a synapse processes every one of them exactly once, no index >= numSpikes
\* is loaded or processed, and with numSpikes = 0 the body never executes.
C23_PostSpanLoopCoversSpikes ==
    phase = "running" =>
        LET B == kernel.blockSize
        IN  /\ numSpikeBlocks(numSpikes, B) = Ceil(numSpikes, B)
            /\ \A t \in Units : \A i \in 1..Len(loadedBy[t]) :
                  loadedBy[t][i] \in 0..(numSpikes - 1)
            /\ \A p \in 0..(numSpikes - 1) : Cardinality(LoadsOf(p)) <= 1
            /\ \A t \in Units : \A i \in 1..Len(processed[t]) :
                  processed[t][i] = i - 1 /\ i - 1 < numSpikes
            /\ KernelFinished =>
                  /\ \A p \in 0..(numSpikes - 1) : Cardinality(LoadsOf(p)) = 1
                  /\ \A t \in Units :
                        Len(processed[t]) =
                            IF t < sg.maxConnections THEN numSpikes ELSE 0
            /\ numSpikes = 0 =>
                  /\ KernelFinished
                  /\ \A t \in Units : loadedBy[t] = << >> /\ processed[t] = << >>

\* The kernel has finished three spikes with blocks of two: one full block
\* and a last block of one spike
C23_Witness ==
    /\ phase = "running"
    /\ numSpikes = 3
    /\ kernel.blockSize = 2
    /\ KernelFinished
    /\ processed[1] = <<0, 1, 2>>
    /\ loadedBy[0] = <<0, 2>>
    /\ loadedBy[1] = <<1>>

\* ------------------------------------------------------------------------
\* Execution of the row loop of the kernel emitted by PreSpan::genCode by
\* the threads (thread = 0 .. numThreadsPerSpike-1) of one spike
\* ------------------------------------------------------------------------
MaxRowLength == 4

RowThreads == 0..(sg.numThreadsPerSpike - 1)

\* Synapse groups whose PreSpan kernel is executed
RowSynapseGroups ==
    [spanType : {"PRESYNAPTIC"},
     matrixType : {{"SPARSE"}},
     numSrcNeurons : {2},
     numTrgNeurons : {MaxRowLength},
     maxConnections : 1..MaxRowLength,
     numThreadsPerSpike : 1..MaxThreadsPerSpike,
     dendriticDelayRequired : {FALSE},
     eventThresholdReTestRequired : {FALSE}]

\* The value of the emitted expression "thread" or "0" in a thread
RowOperand(text, thread) == IF text = "thread" THEN thread ELSE 0

\* A thread of a spike of source neuron preInd, whose row holds npost
\* synapses, has declared synAddress and is at the head of the row loop
InitPreSpanKernel ==
    /\ NeuronGroupIdle
    /\ SubstitutionIdle
    /\ CPUIdle
    /\ SelectionIdle
    /\ KernelIdle
    /\ RowAlone
    /\ sg \in RowSynapseGroups
    /\ backend = [major |-> MinSharedAtomicMajor, kernelBlockSize |-> KernelBlockSize]
    /\ phase = "row"
    /\ compatible = [s \in Strategies |-> isCompatible(s, sg)]
    /\ inRegister = [s \in Strategies |-> shouldAccumulateInRegister(s, sg, backend)]
    /\ inShared = [s \in Strategies |-> shouldAccumulateInSharedMemory(s, sg, backend)]
    /\ numThreads = [s \in Strategies |-> getNumThreads(s, sg)]
    /\ kernel = PreSpan_genCode(sg, backend, TRUE)
    /\ blocks = NoBlocks
    /\ preInd \in 0..(sg.numSrcNeurons - 1)
    /\ npost \in 0..sg.maxConnections
    /\ loopI = [thread \in RowThreads |-> RowOperand(kernel.loopFirst, thread)]
    /\ synAddress = [thread \in RowThreads |->
                        (preInd * kernel.rowStride)
                        + RowOperand(kernel.synAddressFirst, thread)]
    /\ visited = [thread \in RowThreads |-> << >>]

\* One iteration of for(i = first; i < npost; i += step, synAddress += step):
\* the body reads dd_ind[synAddress] and runs the synapse's simulation code
RowIteration(thread) ==
    /\ phase = "row"
    /\ loopI[thread] < npost
    /\ visited' = [visited EXCEPT
                     ![thread] = Append(@, [i |-> loopI[thread],
                                            synAddress |-> synAddress[thread]])]
    /\ loopI' = [loopI EXCEPT ![thread] = @ + kernel.loopStep]
    /\ synAddress' = [synAddress EXCEPT ![thread] = @ + kernel.loopStep]
    /\ UNCHANGED <<preInd, npost>>
    /\ RowFrame

NextPreSpanKernel == \E thread \in RowThreads : RowIteration(thread)

SpecPreSpanKernel == InitPreSpanKernel /\ [][NextPreSpanKernel]_vars

\* ------------------------------------------------------------------------
\* Properties of the row loop of the PreSpan kernel
\* ------------------------------------------------------------------------
\* The iterations that processed position i of the row
VisitsOf(i) ==
    UNION {{<<thread, k>> : k \in {k \in 1..Len(visited[thread]) :
                                      visited[thread][k].i = i}} :
           thread \in RowThreads}

RowFinished == \A thread \in RowThreads : loopI[thread] >= npost

\* C24: with n >= 1 threads per spike, for every spike and every row length
\* npost, every position i in [0, npost) of the row of the source neuron is
\* processed by exactly one of the n threads of the spike, thread i mod n,
\* and at every iteration synAddress = preInd * maxConnections + i.
C24_PreSpanRowCoverage ==
    phase = "row" =>
        LET n == sg.numThreadsPerSpike
        IN  /\ \A thread \in RowThreads : \A k \in 1..Len(visited[thread]) :
                  LET v == visited[thread][k]
                  IN  /\ v.i \in 0..(npost - 1)
                      /\ v.i % n = thread
                      /\ v.synAddress = (preInd * sg.maxConnections) + v.i
            /\ \A i \in 0..(npost - 1) : Cardinality(VisitsOf(i)) <= 1
            /\ RowFinished =>
                  \A i \in 0..(npost - 1) : Cardinality(VisitsOf(i)) = 1

\* Three threads have finished the row of four synapses of source neuron 1:
\* thread 0 processed positions 0 and 3
C24_Witness ==
    /\ phase = "row"
    /\ sg.numThreadsPerSpike = 3
    /\ sg.maxConnections = 4
    /\ npost = 4
    /\ preInd = 1
    /\ RowFinished
    /\ visited[0] = <<[i |-> 0, synAddress |-> 4], [i |-> 3, synAddress |-> 7]>>
    /\ Len(visited[2]) = 1

\* ------------------------------------------------------------------------
\* SpineMLGenerator::Aliases
\* ------------------------------------------------------------------------
\* Code is a sequence of tokens: identifiers, numbers and operators. The
\* names of the aliases, in the order m_Aliases iterates over them
AliasNames == <<"a", "b", "c">>

AliasNameSet == {AliasNames[i] : i \in 1..Len(AliasNames)}

\* The MathInline code an alias can have: a constant, another alias, or the
\* sum of the other two
AliasCodes(name) ==
    LET others == SelectSeq(AliasNames, LAMBDA o : o # name)
    IN  {<<"1">>, <<others[1]>>, <<others[2]>>, <<others[1], "+", others[2]>>}

AliasCodeMaps == {codes \in [AliasNameSet -> UNION {AliasCodes(n) : n \in AliasNameSet}] :
                     \A n \in AliasNameSet : codes[n] \in AliasCodes(n)}

\* The sets of code strings genAliases is called with; "ab" is an identifier
\* that contains the name of an alias and is none
AliasCodeStrings ==
    {{<<"a">>}, {<<"b">>}, {<<"c", "*", "c">>}, {<<"a">>, <<"b", "-", "c">>},
     {<<"ab">>}}

AliasExcludeSets == {{}, {"b"}, {"c"}}

\* std::regex_search(code, "(^|[^0-9a-zA-Z_])" + name + "(?=$|[^a-zA-Z0-9_])"):
\* the name occurs in the code as a whole identifier
References(code, name) == \E i \in 1..Len(code) : code[i] = name

\* The constructor: every alias with its code and the other aliases its
\* code references, in the order of m_Aliases
Aliases(codes) ==
    [name \in AliasNameSet |->
        [code |-> codes[name],
         dependencies |->
            SelectSeq(AliasNames,
                      LAMBDA other : other # name /\ References(codes[name], other))]]

InitAliases ==
    /\ GeneratorIdle
    /\ NeuronGroupIdle
    /\ SubstitutionIdle
    /\ CPUIdle
    /\ SelectionIdle
    /\ AliasAlone
    /\ m_Aliases \in {Aliases(codes) : codes \in AliasCodeMaps}
    /\ codeStrings \in AliasCodeStrings
    /\ excludeAliases \in AliasExcludeSets
    /\ aliasPos = 1
    /\ aliasStack = << >>
    /\ discoveredAliases = {}
    /\ requiredAliases = << >>
    /\ allRequiredAliases = << >>
    /\ aliasesOut = NoAliasesOut

\* One iteration of the loop over m_Aliases, up to the search: an alias that
\* is not excluded and that a code string references starts a search
GenAliases_Start ==
    /\ aliasesOut = NoAliasesOut
    /\ aliasStack = << >>
    /\ requiredAliases = << >>
    /\ aliasPos \in 1..Len(AliasNames)
    /\ LET alias == AliasNames[aliasPos]
       IN  aliasStack' =
             IF /\ alias \notin excludeAliases
                /\ \E code \in codeStrings : References(code, alias)
             THEN <<alias>>
             ELSE << >>
    /\ aliasPos' = aliasPos + 1
    /\ UNCHANGED <<m_Aliases, codeStrings, excludeAliases, discoveredAliases,
                   requiredAliases, allRequiredAliases, aliasesOut>>
    /\ AliasFrame

\* One iteration of while(!aliasStack.empty())
GenAliases_Pop ==
    /\ aliasStack # << >>
    /\ LET v == aliasStack[Len(aliasStack)]
           rest == SubSeq(aliasStack, 1, Len(aliasStack) - 1)
       IN  IF v \notin discoveredAliases
           THEN /\ discoveredAliases' = discoveredAliases \cup {v}
                /\ requiredAliases' = <<v>> \o requiredAliases
                /\ aliasStack' =
                     rest \o SelectSeq(m_Aliases[v].dependencies,
                                       LAMBDA d : d \notin excludeAliases)
           ELSE /\ aliasStack' = rest
                /\ UNCHANGED <<discoveredAliases, requiredAliases>>
    /\ UNCHANGED <<m_Aliases, codeStrings, excludeAliases, aliasPos,
                   allRequiredAliases, aliasesOut>>
    /\ AliasFrame

\* allRequiredAliases.splice(allRequiredAliases.end(), requiredAliases)
GenAliases_Splice ==
    /\ aliasStack = << >>
    /\ requiredAliases # << >>
    /\ allRequiredAliases' = allRequiredAliases \o requiredAliases
    /\ requiredAliases' = << >>
    /\ UNCHANGED <<m_Aliases, codeStrings, excludeAliases, aliasPos, aliasStack,
                   discoveredAliases, aliasesOut>>
    /\ AliasFrame

\* After the loop: one "const scalar name = code;" per required alias
GenAliases_Write ==
    /\ aliasesOut = NoAliasesOut
    /\ aliasPos = Len(AliasNames) + 1
    /\ aliasStack = << >>
    /\ requiredAliases = << >>
    /\ aliasesOut' = [status |-> "written", aliases |-> allRequiredAliases]
    /\ UNCHANGED <<m_Aliases, codeStrings, excludeAliases, aliasPos, aliasStack,
                   discoveredAliases, requiredAliases, allRequiredAliases>>
    /\ AliasFrame

NextAliases ==
    \/ GenAliases_Start
    \/ GenAliases_Pop
    \/ GenAliases_Splice
    \/ GenAliases_Write

SpecAliases == InitAliases /\ [][NextAliases]_vars

\* ------------------------------------------------------------------------
\* Properties of genAliases
\* ------------------------------------------------------------------------
\* The aliases that alias n depends on and that are not excluded
NonExcludedDependencies(n) ==
    {d \in AliasNameSet : d \notin excludeAliases /\ References(m_Aliases[n].code, d)}

\* S with the transitive non-excluded dependencies of its members
RECURSIVE DependencyClosure(_)
DependencyClosure(S) ==
    LET T == S \cup UNION {NonExcludedDependencies(n) : n \in S}
    IN  IF T = S THEN S ELSE DependencyClosure(T)

\* The non-excluded aliases a code string references
ReferencedAliases ==
    {n \in AliasNameSet \ excludeAliases : \E code \in codeStrings : References(code, n)}

WrittenAliases == {aliasesOut.aliases[i] : i \in 1..Len(aliasesOut.aliases)}

\* No required alias depends on itself through non-excluded aliases
AcyclicAliases ==
    \A n \in DependencyClosure(ReferencedAliases) :
        n \notin DependencyClosure(NonExcludedDependencies(n))

\* C25: genAliases writes each alias at most once, writes exactly the
\* non-excluded aliases a code string references together with their
\* transitive non-excluded dependencies, and writes every alias after every
\* non-excluded alias it depends on.
C25_AliasesInDependencyOrder ==
    aliasesOut.status = "written" =>
        LET w == aliasesOut.aliases
        IN  /\ \A i, j \in 1..Len(w) : w[i] = w[j] => i = j
            /\ WrittenAliases = DependencyClosure(ReferencedAliases)
            /\ AcyclicAliases =>
                  \A j \in 1..Len(w) : \A d \in NonExcludedDependencies(w[j]) :
                      \E i \in 1..(j - 1) : w[i] = d

\* C25 (set written): each alias is written at most once and the set
\* written is the closure of the referenced non-excluded aliases.
C25_AliasesWrittenOnce ==
    aliasesOut.status = "written" =>
        LET w == aliasesOut.aliases
        IN  /\ \A i, j \in 1..Len(w) : w[i] = w[j] => i = j
            /\ WrittenAliases = DependencyClosure(ReferencedAliases)

\* ------------------------------------------------------------------------
\* NeuronGroup (neuronGroup.cc): calcSizes
\* ------------------------------------------------------------------------
MaxNumNeurons == 4
MaxNeuronBlkSz == 3
MaxNeuronGroups == 3

\* ceil(x / y) of the doubles x and y; the quotient of two 32-bit counts is
\* never rounded across an integer
CeilQuotient(x, y) == IF x % y = 0 THEN x \div y ELSE (x \div y) + 1

\* Variant that truncates the quotient
paddedSize_Truncated(numNeurons, blockSize) == (numNeurons \div blockSize) * blockSize

\* paddedSize = ceil((double)getNumNeurons() / (double)blockSize) * (double)blockSize
paddedSize(numNeurons, blockSize) == CeilQuotient(numNeurons, blockSize) * blockSize

\* Before the first group: the counters as the caller initialised them,
\* paddedIDStart at a multiple of the block size
InitCalcSizes ==
    /\ GeneratorIdle
    /\ NeuronGroupIdle
    /\ SubstitutionIdle
    /\ CPUIdle
    /\ SelectionIdle
    /\ SizeAlone
    /\ neuronBlkSz \in 1..MaxNeuronBlkSz
    /\ idStart \in {0, 1}
    /\ paddedIDStart \in {0, neuronBlkSz}
    /\ groupRanges = << >>

\* group.calcSizes(neuronBlkSz, idStart, paddedIDStart) on the next group,
\* which has numNeurons neurons
CalcSizes(numNeurons) ==
    /\ Len(groupRanges) < MaxNeuronGroups
    /\ idStart' = idStart + numNeurons
    /\ paddedIDStart' = paddedIDStart + paddedSize(numNeurons, neuronBlkSz)
    /\ groupRanges' =
         Append(groupRanges,
                [numNeurons |-> numNeurons,
                 m_IDRange |-> [first |-> idStart, second |-> idStart'],
                 m_PaddedIDRange |-> [first |-> paddedIDStart,
                                      second |-> paddedIDStart']])
    /\ UNCHANGED neuronBlkSz
    /\ SizeFrame

NextCalcSizes == \E numNeurons \in 1..MaxNumNeurons : CalcSizes(numNeurons)

SpecCalcSizes == InitCalcSizes /\ [][NextCalcSizes]_vars

\* ------------------------------------------------------------------------
\* Properties of calcSizes
\* ------------------------------------------------------------------------
\* C26: calcSizes pads each group to the lowest multiple of blockSize that is
\* >= its neuron count, and over a sequence of calls on successive groups the
\* stored ranges are contiguous and do not overlap: each range starts where
\* the previous one ended, the ID range has the length of the neuron count
\* and the padded range the padded length, and every padded range starts at
\* a multiple of blockSize.
C26_RangesContiguousAndPadded ==
    \A k \in 1..Len(groupRanges) :
        LET r == groupRanges[k]
            padded == r.m_PaddedIDRange.second - r.m_PaddedIDRange.first
        IN  /\ padded % neuronBlkSz = 0
            /\ padded >= r.numNeurons
            /\ padded - neuronBlkSz < r.numNeurons
            /\ r.m_IDRange.second - r.m_IDRange.first = r.numNeurons
            /\ r.m_PaddedIDRange.first % neuronBlkSz = 0
            /\ k > 1 =>
                  /\ r.m_IDRange.first = groupRanges[k - 1].m_IDRange.second
                  /\ r.m_PaddedIDRange.first =
                        groupRanges[k - 1].m_PaddedIDRange.second
            /\ \A j \in 1..(k - 1) :
                  /\ groupRanges[j].m_IDRange.second <= r.m_IDRange.first
                  /\ groupRanges[j].m_PaddedIDRange.second <= r.m_PaddedIDRange.first
            /\ k = Len(groupRanges) =>
                  /\ r.m_IDRange.second = idStart
                  /\ r.m_PaddedIDRange.second = paddedIDStart

\* Three groups with blocks of three: a group of four neurons padded to six
\* follows a group of three that needed no padding
C26_Witness ==
    /\ neuronBlkSz = 3
    /\ Len(groupRanges) = 3
    /\ groupRanges[1].numNeurons = 3
    /\ groupRanges[2].numNeurons = 4
    /\ groupRanges[2].m_PaddedIDRange = [first |-> 6, second |-> 12]
    /\ groupRanges[2].m_IDRange = [first |-> 4, second |-> 8]

\* ------------------------------------------------------------------------
\* Derived parameters: NeuronGroup::initDerivedParams (neuronGroup.cc),
\* Snippet::Init::initDerivedParams and Snippet::Init::canBeMerged (snippet.h)
\* ------------------------------------------------------------------------
MaxInitDerivedParamsCalls == 2

\* The parameter and the derived parameter of the snippet, and the code
\* strings canBeMerged is called with: $(t), $(e) and one without either
PARAM_T == <<"t">>
DERIVED_E == <<"e">>
CODE_T == <<"$", "(", "t", ")">>
CODE_E == <<"$", "(", "e", ")">>
MergeCodeStrings == {CODE_T, CODE_E, CODE_X}

TimeSteps == {1, 2}

\* d.func(m_Params, dt), the same function for every derived parameter
DerivedParamFunc(params, dt) == params[1] * dt

\* What the neuron model and the snippet declare
DerivedParamModels ==
    [neuronDerivedParams : {<< >>, <<"ExpTC">>, <<"ExpTC", "Rmembrane">>},
     neuronParams : {<<3>>},
     paramNames : {<<PARAM_T>>},
     snippetDerivedParams : {<< >>, <<DERIVED_E>>}]

\* The loop of initDerivedParams: one push_back per declared derived parameter
pushDerivedParams(stored, declared, params, dt) ==
    stored \o [i \in 1..Len(declared) |-> DerivedParamFunc(params, dt)]

\* After construction: nothing stored
InitDerivedParams ==
    /\ GeneratorIdle
    /\ NeuronGroupIdle
    /\ SubstitutionIdle
    /\ CPUIdle
    /\ SelectionIdle
    /\ DerivedParamAlone
    /\ dpModel \in DerivedParamModels
    /\ m_DerivedParams = << >>
    /\ inits \in [1..2 -> [m_Params : {<<1>>, <<2>>}, m_DerivedParams : {<< >>}]]
    /\ dpCalls = [group |-> 0, init |-> <<0, 0>>]
    /\ dpNdebug \in BOOLEAN
    /\ mergeOutcome = NoMerge

\* Init::initDerivedParams(dt) applied to one Init
Init_initDerivedParams(init, dt) ==
    [init EXCEPT !.m_DerivedParams =
        pushDerivedParams(@, dpModel.snippetDerivedParams, init.m_Params, dt)]

\* NeuronGroup::initDerivedParams(dt): the group's own derived parameters,
\* then those of its variable initialiser
NeuronGroupInitDerivedParams(dt) ==
    /\ mergeOutcome.status # "assert failed"
    /\ dpCalls.group < MaxInitDerivedParamsCalls
    /\ dpCalls.init[1] < MaxInitDerivedParamsCalls
    /\ m_DerivedParams' = pushDerivedParams(m_DerivedParams, dpModel.neuronDerivedParams,
                                            dpModel.neuronParams, dt)
    /\ inits' = [inits EXCEPT ![1] = Init_initDerivedParams(@, dt)]
    /\ dpCalls' = [dpCalls EXCEPT !.group = @ + 1, !.init[1] = @ + 1]
    /\ UNCHANGED <<dpModel, dpNdebug, mergeOutcome>>
    /\ DerivedParamFrame

\* initDerivedParams(dt) on the Init that is not the group's
InitInitDerivedParams(dt) ==
    /\ mergeOutcome.status # "assert failed"
    /\ dpCalls.init[2] < MaxInitDerivedParamsCalls
    /\ inits' = [inits EXCEPT ![2] = Init_initDerivedParams(@, dt)]
    /\ dpCalls' = [dpCalls EXCEPT !.init[2] = @ + 1]
    /\ UNCHANGED <<dpModel, m_DerivedParams, dpNdebug, mergeOutcome>>
    /\ DerivedParamFrame

\* The outcomes of inits[1].canBeMerged(inits[2], codeString); both have
\* the same snippet. A failed assert ends the generator; with asserts
\* compiled out an element beyond the end of a vector has any value.
canBeMerged(codeString) ==
    LET declared == dpModel.snippetDerivedParams
        paramsMatch ==
            \A i \in 1..Len(dpModel.paramNames) :
                Find(codeString, Placeholder(dpModel.paramNames[i]))
                => inits[1].m_Params[i] = inits[2].m_Params[i]
        sizesMatch ==
            /\ Len(declared) = Len(inits[1].m_DerivedParams)
            /\ Len(declared) = Len(inits[2].m_DerivedParams)
        inRange ==
            /\ Len(declared) <= Len(inits[1].m_DerivedParams)
            /\ Len(declared) <= Len(inits[2].m_DerivedParams)
        derivedMatch ==
            \A i \in 1..Len(declared) :
                Find(codeString, Placeholder(declared[i]))
                => inits[1].m_DerivedParams[i] = inits[2].m_DerivedParams[i]
    IN  IF ~paramsMatch THEN {[status |-> "returned", value |-> FALSE]}
        ELSE IF ~dpNdebug /\ ~sizesMatch THEN {[status |-> "assert failed"]}
        ELSE IF ~inRange THEN [status : {"returned"}, value : BOOLEAN]
        ELSE {[status |-> "returned", value |-> derivedMatch]}

CanBeMerged(codeString) ==
    /\ mergeOutcome.status # "assert failed"
    /\ mergeOutcome' \in canBeMerged(codeString)
    /\ UNCHANGED <<dpModel, m_DerivedParams, inits, dpCalls, dpNdebug>>
    /\ DerivedParamFrame

NextDerivedParams ==
    \/ \E dt \in TimeSteps : NeuronGroupInitDerivedParams(dt)
    \/ \E dt \in TimeSteps : InitInitDerivedParams(dt)
    \/ \E codeString \in MergeCodeStrings : CanBeMerged(codeString)

SpecDerivedParams == InitDerivedParams /\ [][NextDerivedParams]_vars

\* ------------------------------------------------------------------------
\* Properties of the derived parameters
\* ------------------------------------------------------------------------
\* C27: after any number >= 1 of calls of initDerivedParams on a neuron
\* group or on a Snippet::Init, the stored vector holds exactly one value
\* per declared derived parameter, so the size assertions of
\* Init::canBeMerged hold for both operands.
C27_DerivedParamsComputedOnce ==
    /\ dpCalls # << >> =>
          /\ dpCalls.group >= 1 =>
                Len(m_DerivedParams) = Len(dpModel.neuronDerivedParams)
          /\ \A k \in 1..2 :
                dpCalls.init[k] >= 1 =>
                    Len(inits[k].m_DerivedParams) = Len(dpModel.snippetDerivedParams)
          /\ (dpCalls.init[1] >= 1 /\ dpCalls.init[2] >= 1) =>
                mergeOutcome.status # "assert failed"

\* C27 (one call): after exactly one call of initDerivedParams the stored
\* vector holds one value per declared derived parameter.
C27_DerivedParamsAfterOneCall ==
    /\ dpCalls # << >> =>
          /\ dpCalls.group = 1 =>
                Len(m_DerivedParams) = Len(dpModel.neuronDerivedParams)
          /\ \A k \in 1..2 :
                dpCalls.init[k] = 1 =>
                    Len(inits[k].m_DerivedParams) = Len(dpModel.snippetDerivedParams)
          /\ (dpCalls.init[1] = 1 /\ dpCalls.init[2] = 1) =>
                mergeOutcome.status # "assert failed"

\* ------------------------------------------------------------------------
\* SpineMLGenerator::CodeStream
\* ------------------------------------------------------------------------
MaxRegimes == 3
MaxRegimeCode == 2

RegimeIDs == 0..(MaxRegimes - 1)

\* The tokens of the streams. A token of code carries the number of the
\* regime it was written for (the number of regimes ended before it)
CodeToken(n) == [t |-> "code", v |-> n]
ElseToken == [t |-> "else ", v |-> 0]
IfToken(id) == [t |-> "if(_regimeID == id)", v |-> id]
OBToken == [t |-> "OB", v |-> 1]
CBToken == [t |-> "CB", v |-> 1]

\* Variant of flush that leaves the regime stream as it is
flush_KeepRegimeStream(codeStream, regimeStream) ==
    [m_CodeStream |-> codeStream \o regimeStream,
     m_CurrentRegimeStream |-> regimeStream]

\* flush(): m_CodeStream << m_CurrentRegimeStream.str();
\*          m_CurrentRegimeStream.str("")
flush(codeStream, regimeStream) ==
    [m_CodeStream |-> codeStream \o regimeStream,
     m_CurrentRegimeStream |-> << >>]

\* The value the constructor gives m_FirstNonEmptyRegime
InitialFirstNonEmptyRegime == TRUE

\* A CodeStream as constructed: both streams empty, no regime with code yet
InitCodeStream ==
    /\ GeneratorIdle
    /\ NeuronGroupIdle
    /\ SubstitutionIdle
    /\ CPUIdle
    /\ SelectionIdle
    /\ CodeStreamAlone
    /\ m_CodeStream = << >>
    /\ m_CurrentRegimeStream = << >>
    /\ m_FirstNonEmptyRegime = InitialFirstNonEmptyRegime
    /\ multipleRegimes \in BOOLEAN
    /\ regimeEnds = << >>

\* An object handler writes code for the regime under way
WriteRegimeCode ==
    /\ Len(regimeEnds) < MaxRegimes
    /\ Len(m_CurrentRegimeStream) < MaxRegimeCode
    /\ m_CurrentRegimeStream' =
         Append(m_CurrentRegimeStream, CodeToken(Len(regimeEnds)))
    /\ UNCHANGED <<m_CodeStream, m_FirstNonEmptyRegime, multipleRegimes, regimeEnds>>
    /\ CodeStreamFrame

\* onRegimeEnd(multipleRegimes, currentRegimeID)
OnRegimeEnd(currentRegimeID) ==
    /\ Len(regimeEnds) < MaxRegimes
    /\ regimeEnds' = Append(regimeEnds,
                            [id |-> currentRegimeID,
                             code |-> m_CurrentRegimeStream])
    /\ IF Len(m_CurrentRegimeStream) > 0
       THEN LET opened ==
                    IF multipleRegimes
                    THEN m_CodeStream
                         \o (IF m_FirstNonEmptyRegime THEN << >> ELSE <<ElseToken>>)
                         \o <<IfToken(currentRegimeID), OBToken>>
                    ELSE m_CodeStream
                flushed == flush(opened, m_CurrentRegimeStream)
            IN  /\ m_FirstNonEmptyRegime' =
                     IF multipleRegimes THEN FALSE ELSE m_FirstNonEmptyRegime
                /\ m_CurrentRegimeStream' = flushed.m_CurrentRegimeStream
                /\ m_CodeStream' =
                     IF multipleRegimes
                     THEN flushed.m_CodeStream \o <<CBToken>>
                     ELSE flushed.m_CodeStream
       ELSE UNCHANGED <<m_CodeStream, m_CurrentRegimeStream, m_FirstNonEmptyRegime>>
    /\ UNCHANGED multipleRegimes
    /\ CodeStreamFrame

NextCodeStream ==
    \/ WriteRegimeCode
    \/ \E id \in RegimeIDs : OnRegimeEnd(id)

SpecCodeStream == InitCodeStream /\ [][NextCodeStream]_vars

\* ------------------------------------------------------------------------
\* Properties of SpineMLGenerator::CodeStream
\* ------------------------------------------------------------------------
\* What the first k regime ends of a model with multiple regimes are to
\* have put on the main stream
RECURSIVE ExpectedRegimeCode(_)
ExpectedRegimeCode(k) ==
    IF k = 0 THEN << >>
    ELSE LET r == regimeEnds[k]
             earlier == ExpectedRegimeCode(k - 1)
         IN  IF r.code = << >> THEN earlier
             ELSE earlier
                  \o (IF \E j \in 1..(k - 1) : regimeEnds[j].code # << >>
                      THEN <<ElseToken>> ELSE << >>)
                  \o <<IfToken(r.id), OBToken>> \o r.code \o <<CBToken>>

\* C28: over any sequence of onRegimeEnd calls for a model with multiple
\* regimes, a regime without code emits nothing, the first regime with code
\* is wrapped in if(_regimeID == id) and every later one in
\* else if(_regimeID == id), each closed by its bracket, and after every call
\* the regime buffer is empty, so that the code under a regime's condition is
\* the code written for that regime.
C28_RegimesWrappedSeparately ==
    (regimeEnds # << >> /\ multipleRegimes) =>
        /\ m_CodeStream = ExpectedRegimeCode(Len(regimeEnds))
        /\ \A k \in 1..Len(regimeEnds) : \A i \in 1..Len(regimeEnds[k].code) :
              regimeEnds[k].code[i] = CodeToken(k - 1)
        /\ \A i \in 1..Len(m_CurrentRegimeStream) :
              m_CurrentRegimeStream[i] = CodeToken(Len(regimeEnds))

\* Three regimes have ended: the first had no code, the second and the
\* third are wrapped in if and else if
C28_Witness ==
    /\ multipleRegimes
    /\ Len(regimeEnds) = 3
    /\ regimeEnds[1].code = << >>
    /\ m_CodeStream = <<IfToken(1), OBToken, CodeToken(1), CBToken,
                        ElseToken, IfToken(2), OBToken, CodeToken(2), CodeToken(2),
                        CBToken>>

\* ------------------------------------------------------------------------
\* SpineMLGenerator::generateModelCode
\* ------------------------------------------------------------------------
MaxDeclaredRegimes == 2

\* Names of regimes; "X" is a name no Regime element has, "" the value of an
\* attribute that is absent
DeclarableRegimeNames == {"A", "B"}
RegimeNameValues == DeclarableRegimeNames \cup {"X", ""}

TransitionKinds == {"OnCondition", "OnEvent", "OnImpulse"}

\* A Regime element: its name and its transitions (at most one here), each
\* with its kind and its target_regime attribute
RegimeElements ==
    [name : DeclarableRegimeNames,
     transitions : {<< >>} \cup {<<tr>> : tr \in [kind : TransitionKinds,
                                                  target : RegimeNameValues \ {""}]}]

DynamicsElements ==
    [regimes : SeqsUpTo(RegimeElements, MaxDeclaredRegimes) \ {<< >>},
     initial_regime : RegimeNameValues]

\* std::transform(..., std::inserter(regimeIDs, regimeIDs.end()), ...) over
\* the first n Regime elements: each name not yet in the map is inserted
\* with the size of the map as its ID
RECURSIVE buildRegimeIDs(_, _)
buildRegimeIDs(regimes, n) ==
    IF n = 0 THEN << >>
    ELSE LET ids == buildRegimeIDs(regimes, n - 1)
             name == regimes[n].name
         IN  IF name \in DOMAIN ids THEN ids
             ELSE ids @@ (name :> Cardinality(DOMAIN ids))

\* regimeIDs[name]: std::map::operator[] inserts a value-initialised ID for
\* a name that is not in the map
mapIndex(ids, name) == IF name \in DOMAIN ids THEN ids ELSE ids @@ (name :> 0)

\* The transitions of a regime in the order of the three loops
TransitionsInLoopOrder(regime) ==
    SelectSeq(regime.transitions, LAMBDA tr : tr.kind = "OnCondition")
    \o SelectSeq(regime.transitions, LAMBDA tr : tr.kind = "OnEvent")
    \o SelectSeq(regime.transitions, LAMBDA tr : tr.kind = "OnImpulse")

\* The map after the first n transitions have been handled
RECURSIVE handleTransitions(_, _, _)
handleTransitions(ids, transitions, n) ==
    IF n = 0 THEN ids
    ELSE mapIndex(handleTransitions(ids, transitions, n - 1), transitions[n].target)

InitModelCode ==
    /\ GeneratorIdle
    /\ NeuronGroupIdle
    /\ SubstitutionIdle
    /\ CPUIdle
    /\ SelectionIdle
    /\ ModelCodeAlone
    /\ dynamics \in DynamicsElements
    /\ objectHandlers \in {TransitionKinds, TransitionKinds \ {"OnCondition"}}
    /\ regimeIDs = << >>
    /\ regimePos = 0
    /\ modelCodeResult = NoModelCode

\* Build mapping from regime names to IDs
BuildRegimeIDs ==
    /\ regimePos = 0
    /\ modelCodeResult = NoModelCode
    /\ regimeIDs' = buildRegimeIDs(dynamics.regimes, Len(dynamics.regimes))
    /\ regimePos' = 1
    /\ UNCHANGED <<dynamics, objectHandlers, modelCodeResult>>
    /\ ModelCodeFrame

\* One iteration of the loop through the regimes
HandleRegime ==
    /\ regimePos \in 1..Len(dynamics.regimes)
    /\ modelCodeResult = NoModelCode
    /\ LET transitions == TransitionsInLoopOrder(dynamics.regimes[regimePos])
           unhandled == {n \in 1..Len(transitions) :
                            transitions[n].kind \notin objectHandlers}
       IN  IF unhandled = {}
           THEN /\ regimeIDs' = handleTransitions(regimeIDs, transitions, Len(transitions))
                /\ regimePos' = regimePos + 1
                /\ UNCHANGED modelCodeResult
           ELSE LET first == CHOOSE n \in unhandled : \A o \in unhandled : n <= o
                IN  /\ regimeIDs' = handleTransitions(regimeIDs, transitions, first - 1)
                    /\ modelCodeResult' = [status |-> "thrown", what |-> "No handler"]
                    /\ UNCHANGED regimePos
    /\ UNCHANGED <<dynamics, objectHandlers>>
    /\ ModelCodeFrame

\* Search for initial regime
FindInitialRegime ==
    /\ regimePos = Len(dynamics.regimes) + 1
    /\ modelCodeResult = NoModelCode
    /\ modelCodeResult' =
         IF dynamics.initial_regime \notin DOMAIN regimeIDs
         THEN [status |-> "thrown", what |-> "No initial regime set"]
         ELSE [status |-> "returned",
               \* regimeIDs.size() > 1, taken when the map had just been built
               multipleRegimes |->
                   Cardinality(DOMAIN buildRegimeIDs(dynamics.regimes,
                                                     Len(dynamics.regimes))) > 1,
               initialRegimeID |-> regimeIDs[dynamics.initial_regime]]
    /\ UNCHANGED <<dynamics, objectHandlers, regimeIDs, regimePos>>
    /\ ModelCodeFrame

NextModelCode ==
    \/ BuildRegimeIDs
    \/ HandleRegime
    \/ FindInitialRegime

SpecModelCode == InitModelCode /\ [][NextModelCode]_vars

\* ------------------------------------------------------------------------
\* Properties of generateModelCode
\* ------------------------------------------------------------------------
DeclaredRegimeNames ==
    {dynamics.regimes[i].name : i \in 1..Len(dynamics.regimes)}

\* The ID a declared regime was given when the map was built
DeclaredRegimeID(name) ==
    buildRegimeIDs(dynamics.regimes, Len(dynamics.regimes))[name]

\* C29: whatever transitions the regimes contain, generateModelCode throws
\* "No initial regime set" whenever initial_regime does not name a declared
\* Regime element; otherwise it returns the ID given to that declared regime,
\* and distinct declared regimes have distinct IDs.
C29_InitialRegimeChecked ==
    (modelCodeResult.status # "none" /\ objectHandlers = TransitionKinds) =>
        /\ dynamics.initial_regime \notin DeclaredRegimeNames =>
              modelCodeResult = [status |-> "thrown", what |-> "No initial regime set"]
        /\ dynamics.initial_regime \in DeclaredRegimeNames =>
              /\ modelCodeResult.status = "returned"
              /\ modelCodeResult.initialRegimeID =
                    DeclaredRegimeID(dynamics.initial_regime)
        /\ \A a, b \in DeclaredRegimeNames :
              a # b => regimeIDs[a] # regimeIDs[b]

\* C29 (declared regimes): a declared initial regime is returned with the ID
\* it was given, and distinct declared regimes have distinct IDs.
C29_DeclaredInitialRegimeReturned ==
    (modelCodeResult.status # "none" /\ objectHandlers = TransitionKinds) =>
        /\ dynamics.initial_regime \in DeclaredRegimeNames =>
              /\ modelCodeResult.status = "returned"
              /\ modelCodeResult.initialRegimeID =
                    DeclaredRegimeID(dynamics.initial_regime)
        /\ \A a, b \in DeclaredRegimeNames :
              a # b => regimeIDs[a] # regimeIDs[b]

\* ------------------------------------------------------------------------
\* Properties of the threshold re-test and the brackets of genCode
\* ------------------------------------------------------------------------
\* Positions of the calls of a handler among what genCode wrote
CallsOf(c, handlerCall) == {i \in 1..Len(c) : c[i] = handlerCall}

\* The brackets still open after the first n items of c, innermost last;
\* <<0>> once a bracket was closed that was not the innermost open one
RECURSIVE OpenBrackets(_, _)
OpenBrackets(c, n) ==
    IF n = 0 THEN << >>
    ELSE LET open == OpenBrackets(c, n - 1)
         IN  IF open = <<0>> THEN open
             ELSE IF c[n].op = "OB" THEN Append(open, c[n].id)
             ELSE IF c[n].op = "CB"
             THEN IF open # << >> /\ open[Len(open)] = c[n].id
                  THEN SubSeq(open, 1, Len(open) - 1)
                  ELSE <<0>>
             ELSE open

\* C30: in genCode of every strategy the threshold re-test is emitted exactly
\* when the spikes are events (trueSpike false) and the connection requires
\* the re-test: then the threshold handler is called exactly once, with
\* id_pre bound, and the synapse update is inside its condition; for true
\* spikes the handler is never called; and in every configuration every
\* bracket opened (130, 135, 140) is closed by the same id, the last opened
\* first.
C30_ThresholdReTestAndBrackets ==
    Generated =>
        LET c == kernel.conditionals
            reTest == ~kernel.trueSpike /\ sg.eventThresholdReTestRequired
            sim == CHOOSE i \in CallsOf(c, SimCall) : TRUE
        IN  /\ Cardinality(CallsOf(c, SimCall)) = 1
            /\ Cardinality(CallsOf(c, ThreshCall)) = IF reTest THEN 1 ELSE 0
            /\ Len(kernel.thresh) = Cardinality(CallsOf(c, ThreshCall))
            /\ reTest =>
                  /\ "id_pre" \in DOMAIN kernel.thresh[1]
                  /\ \E i \in 1..(sim - 1) :
                        /\ c[i] = ThreshCall
                        /\ c[i + 1] = OB(130)
                        /\ 130 \in {OpenBrackets(c, sim)[k] :
                                       k \in 1..Len(OpenBrackets(c, sim))}
            /\ kernel.trueSpike => CallsOf(c, ThreshCall) = {}
            /\ \A i \in 1..Len(c) :
                  c[i].op \in {"OB", "CB"} => c[i].id \in {130, 135, 140}
            /\ OpenBrackets(c, Len(c)) = << >>

\* PostSpan generated the event kernel of a bitmask matrix that requires the
\* re-test: the bitmask test is part of the threshold condition and bracket
\* 135 is not opened
C30_Witness ==
    /\ Generated
    /\ kernel.strategy = "PostSpan"
    /\ ~kernel.trueSpike
    /\ sg.eventThresholdReTestRequired
    /\ HasConnectivity(sg, "BITMASK")
    /\ kernel.conditionals = <<ThreshCall, OB(130), SimCall, CB(130)>>

====
